---- MODULE Spec2Model ----
(***************************************************************************)
(* Quant-Index-Intraday-Scanner: the scan orchestrator (scanner.py,        *)
(* run_scan_background / _scan, with the shared scan_state and _scan_lock) *)
(* and the consensus / grading pipeline of scan_index.                     *)
(*                                                                         *)
(* Two specifications:                                                     *)
(*   Spec           the trigger handler and the background scan threads,   *)
(*                  one step per statement that touches scan_state or the  *)
(*                  lock, one step per external call;                      *)
(*   SpecScanIndex  scan_index as a function of what its calls return      *)
(*                  (candle count, clock, the five model votes, the last   *)
(*                  close and VWAP).                                       *)
(* Times of day are seconds since midnight (datetime.time compares down to *)
(* the second and below; the second is the finest grain modelled).         *)
(***************************************************************************)
EXTENDS Integers, Sequences, FiniteSets, TLC

VARIABLES
    scan_state,   \* scanner.py scan_state: the record polled by /api/results
    locked,       \* _scan_lock is held
    pc,           \* position of each background thread in _scan
    i,            \* _scan: loop index over INSTRUMENTS
    l_cprs,       \* _scan: local dict cprs
    l_signals,    \* _scan: local list signals
    l_exc,        \* _scan: the exception caught by the outer handler
    outcome,      \* per thread, what scan_index did for each instrument so far
    tpc,          \* position of the request thread in run_scan_background
    committed,    \* history: scan_state as the last critical section left it
    clock,        \* _ist_now(): the wall clock, in seconds of the day
    inp,          \* SpecScanIndex: what scan_index's calls return
    out,          \* SpecScanIndex: what scan_index returned and logged
    phase         \* SpecScanIndex: "call" before, "returned" after

vars == <<scan_state, locked, pc, i, l_cprs, l_signals, l_exc, outcome, tpc,
          committed, clock, inp, out, phase>>

orchVars == <<scan_state, locked, pc, i, l_cprs, l_signals, l_exc, outcome, tpc,
              committed, clock>>
pureVars == <<inp, out, phase>>

-----------------------------------------------------------------------------
(* config.py *)

INSTRUMENTS == <<"NIFTY", "BANKNIFTY">>

SIGNAL_START    == <<9, 30>>
SIGNAL_END      == <<14, 0>>
DEAD_ZONE_START == <<11, 30>>
DEAD_ZONE_END   == <<12, 0>>

MIN_MODELS_AGREE    == 3
DEAD_ZONE_MIN_SCORE == 20
GRADE_A_HIGH_SCORE  == 20
GRADE_A_MED_SCORE   == 16
ALL_AGREE_BONUS     == 3

(* scanner.py: the literals of scan_index and _grade *)
MIN_CANDLES      == 5     \* len(df) < 5
HIGH_MIN_AGREE   == 4     \* agreeing >= 4
NUM_MODELS       == 5     \* results = [m1, m2, m3, m4, m5]; agreeing == 5
PROGRESS_SPAN    == 80    \* int((i / len(INSTRUMENTS)) * 80)
PROGRESS_DONE    == 100   \* scan_state["progress"] = 100

(* models.py: every model caps its score with min(score, 5) *)
MAX_SCORE == 5

(* config.py, risk management, and the literals of risk_manager.py. The    *)
(* prices read from the feed are whole ticks of 0.05, the tick of the index *)
(* futures of INSTRUMENTS (22500.00 is 450000); the prices calculate_risk   *)
(* returns are rounded to two decimals and are whole hundredths (22500.00   *)
(* is 2250000). The fractions are kept as whole numbers too:                *)
TICK            == 5     \* hundredths in a tick
SL_PCT          == 4     \* SL_PCT = 0.004, in thousandths
ORB_BUFFER      == 1     \* entry * 0.001, in thousandths
TARGET_RR_MIN   == 15    \* TARGET_RR_MIN = 1.5, in tenths
TARGET_RR_IDEAL == 20    \* TARGET_RR_IDEAL = 2.0, in tenths
LOT_SIZES       == [NIFTY |-> 25, BANKNIFTY |-> 15]
DEFAULT_LOT     == 25    \* LOT_SIZES.get(index, 25)

(* Bound of the orchestrator model: the number of scan threads ever started *)
MaxCycles == 2

(* Bound of the outcome model: the number of candles after the signal *)
MaxCandles == 3

(* Bound of the RSI model: the number of closes of the series *)
MaxSeries == 5

-----------------------------------------------------------------------------
(* Time helpers *)

\* _parse_time: "HH:MM" -> time(h, m), here in seconds since midnight
ParseTime(t) == t[1] * 3600 + t[2] * 60

\* as the signal window, without its end
InSignalWindowNoEnd(now) == ParseTime(SIGNAL_START) <= now

InSignalWindow(now) ==
    /\ ParseTime(SIGNAL_START) <= now
    /\ now <= ParseTime(SIGNAL_END)

InDeadZone(now) ==
    /\ ParseTime(DEAD_ZONE_START) <= now
    /\ now <= ParseTime(DEAD_ZONE_END)

-----------------------------------------------------------------------------
(* Model votes: what model_orb .. model_cpr can return *)

ModelNames == <<"ORB", "VWAP", "EMA", "MACD", "CPR">>

\* base score of a BUY/SELL vote: ORB starts at 2, the other four at 3
BaseScores == <<2, 3, 3, 3, 3>>

Vote(d, s) == [direction |-> d, score |-> s]

\* as the votes, without the cap min(score, 5)
ModelVotesUncapped(k) ==
    {Vote("NEUTRAL", 0)} \cup
    {Vote(d, s) : d \in {"BUY", "SELL"}, s \in BaseScores[k] .. MAX_SCORE + 1}

ModelVotes(k) ==
    {Vote("NEUTRAL", 0)} \cup
    {Vote(d, s) : d \in {"BUY", "SELL"}, s \in BaseScores[k] .. MAX_SCORE}

RECURSIVE SumScores(_)
SumScores(ms) ==
    IF ms = <<>> THEN 0 ELSE Head(ms).score + SumScores(Tail(ms))

\* [m for m in results if m["direction"] == d]
ModelsOf(results, d) == SelectSeq(results, LAMBDA m : m.direction = d)

-----------------------------------------------------------------------------
(* Grade logic *)

\* as _grade, without the agreement conditions
GradeByScoreOnly(total_score, agreeing) ==
    IF total_score >= GRADE_A_HIGH_SCORE THEN "A+ HIGH"
    ELSE IF total_score >= GRADE_A_MED_SCORE THEN "A+ MEDIUM"
    ELSE "WATCH"

Grade(total_score, agreeing) ==
    IF total_score >= GRADE_A_HIGH_SCORE /\ agreeing >= HIGH_MIN_AGREE
    THEN "A+ HIGH"
    ELSE IF total_score >= GRADE_A_MED_SCORE /\ agreeing >= MIN_MODELS_AGREE
    THEN "A+ MEDIUM"
    ELSE "WATCH"

-----------------------------------------------------------------------------
(* Arithmetic of risk_manager.py *)

NaN == -1   \* a float NaN: prices are positive, -1 stands for NaN

\* The unrounded values of calculate_risk (entry * 0.004, entry * 0.001,
\* risk * 1.5) are whole numbers of 1/2000 of a tick: Scale of these fine
\* units make one tick, Scale / TICK of them one hundredth.
Scale == 2000

Max(a, b) == IF a >= b THEN a ELSE b
Min(a, b) == IF a <= b THEN a ELSE b
Abs(a)    == IF a >= 0 THEN a ELSE 0 - a

\* n / d rounded to the nearest whole number, for n >= 0 and d > 0. A value exactly
\* half way is a decimal tie no binary float holds exactly: round() sees the
\* nearest double, which lies on either side of it, so the direction is the
\* input `up`, chosen for each rounded field of a call on its own.
RoundDiv(n, d, up) ==
    LET q == n \div d
        r == n % d
    IN  IF 2 * r > d THEN q + 1
        ELSE IF 2 * r < d THEN q
        ELSE IF up THEN q + 1 ELSE q

\* round(x, 2) of a value in fine units, in hundredths
Round2(x, up) == RoundDiv(x, Scale \div TICK, up)

\* pct_sl_pts = entry * SL_PCT, in fine units
PctSlPts(entry) == entry * ((Scale * SL_PCT) \div 1000)

\* orb_sl: <<>> for None, else <<the level moved 0.1% of entry away>>
\*   BUY   (or_level - entry * 0.001) if or_level and or_level < entry else None
\*   SELL  (or_level + entry * 0.001) if or_level and or_level > entry else None
\* (a NaN level is truthy and compares False)
OrbSl(direction, entry, or_level) ==
    LET buffer == entry * ((Scale * ORB_BUFFER) \div 1000)
        usable == or_level # 0 /\ or_level # NaN
    IN  IF direction = "BUY"
        THEN IF usable /\ or_level < entry
             THEN << or_level * Scale - buffer >> ELSE <<>>
        ELSE IF usable /\ or_level > entry
             THEN << or_level * Scale + buffer >> ELSE <<>>

\* as the stop-loss, with the wider of the two stops chosen
StopLossWidest(direction, entry, or_level) ==
    LET pct_sl_pts == PctSlPts(entry)
        orb_sl     == OrbSl(direction, entry, or_level)
        has_orb    == orb_sl # <<>> /\ orb_sl[1] # 0
    IN  IF direction = "BUY"
        THEN LET pct_sl == entry * Scale - pct_sl_pts
             IN  Max(IF has_orb THEN Min(pct_sl, orb_sl[1]) ELSE pct_sl, 0)
        ELSE LET pct_sl == entry * Scale + pct_sl_pts
             IN  IF has_orb THEN Max(pct_sl, orb_sl[1]) ELSE pct_sl

\* sl, unrounded, in fine units:
\*   BUY   sl = max(pct_sl, orb_sl) if orb_sl else pct_sl; sl = max(sl, 0)
\*   SELL  sl = min(pct_sl, orb_sl) if orb_sl else pct_sl
StopLoss(direction, entry, or_level) ==
    LET pct_sl_pts == PctSlPts(entry)
        orb_sl     == OrbSl(direction, entry, or_level)
        has_orb    == orb_sl # <<>> /\ orb_sl[1] # 0
    IN  IF direction = "BUY"
        THEN LET pct_sl == entry * Scale - pct_sl_pts
             IN  Max(IF has_orb THEN Max(pct_sl, orb_sl[1]) ELSE pct_sl, 0)
        ELSE LET pct_sl == entry * Scale + pct_sl_pts
             IN  IF has_orb THEN Min(pct_sl, orb_sl[1]) ELSE pct_sl

\* as the risk distance, always the percentage distance
RiskPtsPctOnly(entry, sl) == PctSlPts(entry)

\* risk_pts = abs(entry - sl); if risk_pts == 0: risk_pts = pct_sl_pts
RiskPts(entry, sl) ==
    LET risk_pts == Abs(entry * Scale - sl)
    IN  IF risk_pts = 0 THEN PctSlPts(entry) ELSE risk_pts

\* entry + risk_pts * rr if direction == "BUY" else entry - risk_pts * rr
Target(direction, entry, risk_pts, rr) ==
    IF direction = "BUY" THEN entry * Scale + (risk_pts * rr) \div 10
                         ELSE entry * Scale - (risk_pts * rr) \div 10

\* as the ratio, risk over reward
RiskRewardInverted(target, entry, risk_pts, up) ==
    RoundDiv(risk_pts * 100, Abs(target - entry * Scale), up)

\* round(abs(target - entry) / risk_pts, 2), in hundredths
RiskReward(target, entry, risk_pts, up) ==
    RoundDiv(Abs(target - entry * Scale) * 100, risk_pts, up)

\* the fields calculate_risk rounds, and the assignments of a tie direction
\* to each of those whose unrounded value can be a decimal tie
RoundedFields ==
    {"entry", "sl", "target_1", "target_2", "rr_1", "rr_2", "risk_pts"}
TieFields == {"sl", "target_1", "target_2", "risk_pts"}
TieChoices == {[f \in RoundedFields |-> f \in U] : U \in SUBSET TieFields}
NoTieUp == [f \in RoundedFields |-> FALSE]

\* calculate_risk(index, direction, entry, or_level), entry and or_level in
\* ticks: every returned price and ratio in hundredths
calculate_risk(index, direction, entry, or_level, up) ==
    LET sl       == StopLoss(direction, entry, or_level)
        risk_pts == RiskPts(entry, sl)
        target_1 == Target(direction, entry, risk_pts, TARGET_RR_MIN)
        target_2 == Target(direction, entry, risk_pts, TARGET_RR_IDEAL)
    IN  [entry    |-> Round2(entry * Scale, up.entry),
         sl       |-> Round2(sl, up.sl),
         target_1 |-> Round2(target_1, up.target_1),
         target_2 |-> Round2(target_2, up.target_2),
         rr_1     |-> RiskReward(target_1, entry, risk_pts, up.rr_1),
         rr_2     |-> RiskReward(target_2, entry, risk_pts, up.rr_2),
         risk_pts |-> Round2(risk_pts, up.risk_pts),
         lot_size |-> IF index \in DOMAIN LOT_SIZES THEN LOT_SIZES[index]
                                                    ELSE DEFAULT_LOT]

-----------------------------------------------------------------------------
(* indicators.py: rsi. A series is a sequence of closes, row 1 first. The    *)
(* smoothed averages of row t are kept as whole numbers, scaled by           *)
(* RSI_PERIOD^(t-2): both averages of a row carry the same scale. An RSI     *)
(* value is [nan, num, den]: NaN, or the fraction num / den.                  *)

RSI_PERIOD == 14

RECURSIVE Power(_, _)
Power(b, e) == IF e = 0 THEN 1 ELSE b * Power(b, e - 1)

\* delta = series.diff(); gain = delta.clip(lower=0), for a row t >= 2
Gain(series, t) == Max(series[t] - series[t - 1], 0)
\* loss = (-delta).clip(lower=0)
Loss(series, t) == Max(series[t - 1] - series[t], 0)

\* x.ewm(alpha=1 / period, adjust=False).mean() at row t >= 2, where x is
\* Gain or Loss by name: row 1 of x is NaN, row 2 starts the average, and
\* from then on y[t] = ((period - 1) * y[t-1] + x[t]) / period
RECURSIVE Ewm(_, _, _)
Ewm(series, loss, t) ==
    LET x == IF loss THEN Loss(series, t) ELSE Gain(series, t)
    IN  IF t = 2 THEN x
        ELSE (RSI_PERIOD - 1) * Ewm(series, loss, t - 1)
             + x * Power(RSI_PERIOD, t - 2)

RsiNaN == [nan |-> TRUE, num |-> 0, den |-> 1]
RsiValue(n, d) == [nan |-> FALSE, num |-> n, den |-> d]

\* rs = avg_gain / avg_loss.replace(0, np.nan); 100 - (100 / (1 + rs)),
\* which is 100 * avg_gain / (avg_gain + avg_loss) when rs is a number
RsiAt(series, t) ==
    IF t = 1 THEN RsiNaN
    ELSE LET avg_gain == Ewm(series, FALSE, t)
             avg_loss == Ewm(series, TRUE, t)
         IN  IF avg_loss = 0 THEN RsiNaN
             ELSE RsiValue(100 * avg_gain, avg_gain + avg_loss)

\* rsi(series, 14): the derived series, row by row
rsi(series) == [t \in 1 .. Len(series) |-> RsiAt(series, t)]

-----------------------------------------------------------------------------
(* indicators.py: cpr_levels. Prices are in hundredths; the levels before    *)
(* rounding are in sixths of a hundredth, which holds each of them exactly.  *)

Sixths == 6

CprPivot(prev_high, prev_low, prev_close) ==
    2 * (prev_high + prev_low + prev_close)

\* tc = (pivot + prev_high) / 2
CprTc(prev_high, prev_low, prev_close) ==
    (CprPivot(prev_high, prev_low, prev_close) + Sixths * prev_high) \div 2

\* as bc, the textbook bottom central level (prev_high + prev_low) / 2
CprBcMidRange(prev_high, prev_low, prev_close) ==
    (Sixths * (prev_high + prev_low)) \div 2

\* bc = (pivot + prev_low) / 2
CprBc(prev_high, prev_low, prev_close) ==
    (CprPivot(prev_high, prev_low, prev_close) + Sixths * prev_low) \div 2

\* the fields whose value can fall on a decimal tie: tc and bc are odd sixths
\* at times, the other levels are whole thirds
CprTieFields == {"tc", "bc", "cpr_width_pct"}
CprTieChoices == [CprTieFields -> BOOLEAN]

\* cpr_levels(prev_high, prev_low, prev_close): every level rounded to two
\* decimals, cpr_width_pct (abs(tc - bc) / pivot * 100 if pivot else 0) to
\* four, in ten-thousandths of a percent
cpr_levels(prev_high, prev_low, prev_close, up) ==
    LET pivot == CprPivot(prev_high, prev_low, prev_close)
        tc    == CprTc(prev_high, prev_low, prev_close)
        bc    == CprBc(prev_high, prev_low, prev_close)
        r1    == 2 * pivot - Sixths * prev_low
        r2    == pivot + Sixths * (prev_high - prev_low)
        s1    == 2 * pivot - Sixths * prev_high
        s2    == pivot - Sixths * (prev_high - prev_low)
    IN  [pivot |-> RoundDiv(pivot, Sixths, FALSE),
         tc    |-> RoundDiv(tc, Sixths, up.tc),
         bc    |-> RoundDiv(bc, Sixths, up.bc),
         r1    |-> RoundDiv(r1, Sixths, FALSE),
         r2    |-> RoundDiv(r2, Sixths, FALSE),
         s1    |-> RoundDiv(s1, Sixths, FALSE),
         s2    |-> RoundDiv(s2, Sixths, FALSE),
         cpr_width_pct |->
             IF pivot # 0
             THEN RoundDiv(Abs(tc - bc) * 1000000, pivot, up.cpr_width_pct)
             ELSE 0]

-----------------------------------------------------------------------------
(* models.py: the five models. A frame df is [rows, <column> ...]: rows is  *)
(* len(df) and a column is the tuple of its values at offsets 0, 1, 2, 3    *)
(* from the last row; first_open and first_close are row 0. A float is an   *)
(* integer, NaN the integer NaN (no column holds -1 as a value); Python's   *)
(* None is the integer None.                                                *)

None == -2

\* _last(df, col, offset)
Last(df, col, offset) ==
    IF df.rows - 1 - offset < 0 THEN None ELSE df[col][offset + 1]

\* comparisons of floats: false as soon as one side is NaN
Gt(a, b) == a # NaN /\ b # NaN /\ a > b
Lt(a, b) == a # NaN /\ b # NaN /\ a < b
Ge(a, b) == a # NaN /\ b # NaN /\ a >= b
Le(a, b) == a # NaN /\ b # NaN /\ a <= b

\* _is_bullish, _candle_body, _candle_range
IsBullish(df) == Gt(Last(df, "close", 0), Last(df, "open", 0))
CandleBody(df) ==
    IF Last(df, "close", 0) = NaN \/ Last(df, "open", 0) = NaN THEN NaN
    ELSE Abs(Last(df, "close", 0) - Last(df, "open", 0))
CandleRange(df) ==
    IF Last(df, "high", 0) = NaN \/ Last(df, "low", 0) = NaN THEN NaN
    ELSE Last(df, "high", 0) - Last(df, "low", 0)

FullVote(d, s, r) == [direction |-> d, score |-> s, reason |-> r]

\* the body of a model left by an exception e
Raised(e) == FullVote("RAISED", 0, e)

\* try: ... except Exception as e: return NEUTRAL, 0, "<name> error: ..."
Try(body, name) ==
    IF body.direction = "RAISED" THEN FullVote("NEUTRAL", 0, name \o " error")
    ELSE body

\* as the fewest rows, every model going on with whatever there is
MIN_ROWS_NONE == [ORB |-> 0, VWAP |-> 0, EMA |-> 0, MACD |-> 0]

\* the fewest rows each model goes on with
MIN_ROWS == [ORB |-> 2, VWAP |-> 3, EMA |-> 51, MACD |-> 5]

\* as the NaN guard, looking for None only
AnyMissingNoneOnly(vs) == \E j \in DOMAIN vs : vs[j] = None

\* any(v is None or np.isnan(v) for v in [...])
AnyMissing(vs) == \E j \in DOMAIN vs : vs[j] = None \/ vs[j] = NaN

\* vol_ratio >= tenths / 10, where
\* vol_ratio = cur_vol / avg_vol if avg_vol and avg_vol > 0 else 0
VolRatioGe(cur_vol, avg_vol, tenths) ==
    IF avg_vol # 0 /\ Gt(avg_vol, 0)
    THEN cur_vol # NaN /\ 10 * cur_vol >= tenths * avg_vol
    ELSE FALSE

\* _candle_body(df) > 0.3 * _candle_range(df) if _candle_range(df) else False
StrongCandle(df) ==
    IF CandleRange(df) # 0
    THEN CandleBody(df) # NaN /\ CandleRange(df) # NaN
         /\ 10 * CandleBody(df) > 3 * CandleRange(df)
    ELSE FALSE

Bonus(b) == IF b THEN 1 ELSE 0

model_orb(df) ==
    Try(IF df.rows < MIN_ROWS.ORB
        THEN FullVote("NEUTRAL", 0, "ORB: insufficient data")
        ELSE
        LET or_high   == df.or_high[1]
            or_low    == df.or_low[1]
            cur_close == Last(df, "close", 0)
            cur_vol   == Last(df, "volume", 0)
            avg_vol   == Last(df, "avg_vol", 0)
            gap_up    == Gt(df.first_open, df.first_close)
        IN  IF or_high = NaN \/ or_low = NaN
            THEN FullVote("NEUTRAL", 0, "ORB: OR not yet set")
            ELSE IF Gt(cur_close, or_high) /\ VolRatioGe(cur_vol, avg_vol, 15)
            THEN FullVote("BUY",
                          Min(2 + Bonus(VolRatioGe(cur_vol, avg_vol, 20))
                                + Bonus(StrongCandle(df)) + Bonus(gap_up),
                              MAX_SCORE),
                          "ORB BUY")
            ELSE IF Lt(cur_close, or_low) /\ VolRatioGe(cur_vol, avg_vol, 15)
            THEN FullVote("SELL",
                          Min(2 + Bonus(VolRatioGe(cur_vol, avg_vol, 20))
                                + Bonus(StrongCandle(df)) + Bonus(~gap_up),
                              MAX_SCORE),
                          "ORB SELL")
            ELSE FullVote("NEUTRAL", 0, "ORB: no breakout"),
        "ORB")

model_vwap(df) ==
    Try(IF df.rows < MIN_ROWS.VWAP
        THEN FullVote("NEUTRAL", 0, "VWAP: insufficient data")
        ELSE
        LET cur_close  == Last(df, "close", 0)
            prev_close == Last(df, "close", 1)
            cur_vwap   == Last(df, "vwap", 0)
            prev_vwap  == Last(df, "vwap", 1)
            cur_rsi    == Last(df, "rsi14", 0)
        IN  IF AnyMissing(<<cur_close, prev_close, cur_vwap, prev_vwap, cur_rsi>>)
            THEN FullVote("NEUTRAL", 0, "VWAP: NaN values")
            ELSE IF Lt(prev_close, prev_vwap) /\ Lt(cur_rsi, 40)
                    /\ Gt(cur_close, cur_vwap)
            THEN FullVote("BUY",
                          Min(3 + Bonus(Lt(cur_rsi, 30)) + Bonus(IsBullish(df)),
                              MAX_SCORE),
                          "VWAP BUY reversion")
            ELSE IF Gt(prev_close, prev_vwap) /\ Gt(cur_rsi, 60)
                    /\ Lt(cur_close, cur_vwap)
            THEN FullVote("SELL",
                          Min(3 + Bonus(Gt(cur_rsi, 70)) + Bonus(~IsBullish(df)),
                              MAX_SCORE),
                          "VWAP SELL reversion")
            ELSE FullVote("NEUTRAL", 0, "VWAP: no signal"),
        "VWAP")

\* sep_pct > 0.3, where sep_pct = abs(ema9 - ema50) / ema50 * 100 if ema50
\* else 0 (the averages are of prices, positive when not zero)
SepWide(ema9, ema50) ==
    IF ema50 # 0 THEN Abs(ema9 - ema50) * 1000 > 3 * ema50 ELSE FALSE

model_ema_trend(df) ==
    Try(IF df.rows < MIN_ROWS.EMA
        THEN FullVote("NEUTRAL", 0, "EMA: warming up (<51 candles)")
        ELSE
        LET cur_close == Last(df, "close", 0)
            ema9      == Last(df, "ema9", 0)
            ema21     == Last(df, "ema21", 0)
            ema50     == Last(df, "ema50", 0)
            prev_low  == Last(df, "low", 1)
            prev_high == Last(df, "high", 1)
        IN  IF AnyMissing(<<cur_close, ema9, ema21, ema50>>)
            THEN FullVote("NEUTRAL", 0, "EMA: NaN")
            ELSE IF Gt(ema9, ema21) /\ Gt(ema21, ema50) /\ Gt(cur_close, ema9)
            THEN IF prev_low # NaN /\ prev_low * 1000 <= ema21 * 1001
                 THEN FullVote("BUY",
                               Min(3 + Bonus(SepWide(ema9, ema50))
                                     + Bonus(IsBullish(df)), MAX_SCORE),
                               "EMA BUY")
                 ELSE FullVote("NEUTRAL", 0, "EMA: no alignment")
            ELSE IF Lt(ema9, ema21) /\ Lt(ema21, ema50) /\ Lt(cur_close, ema9)
            THEN IF prev_high # NaN /\ prev_high * 1000 >= ema21 * 999
                 THEN FullVote("SELL",
                               Min(3 + Bonus(SepWide(ema9, ema50))
                                     + Bonus(~IsBullish(df)), MAX_SCORE),
                               "EMA SELL")
                 ELSE FullVote("NEUTRAL", 0, "EMA: no alignment")
            ELSE FullVote("NEUTRAL", 0, "EMA: no alignment"),
        "EMA")

model_momentum(df) ==
    Try(IF df.rows < MIN_ROWS.MACD
        THEN FullVote("NEUTRAL", 0, "MACD: insufficient data")
        ELSE
        LET cur_rsi   == Last(df, "rsi14", 0)
            prev_rsi  == Last(df, "rsi14", 1)
            cur_hist  == Last(df, "macd_hist", 0)
            prev_hist == Last(df, "macd_hist", 1)
            pp_hist   == Last(df, "macd_hist", 2)
            cur_high  == Last(df, "high", 0)
            prev_high == Last(df, "high", 1)
            cur_low   == Last(df, "low", 0)
            prev_low  == Last(df, "low", 1)
            pp        == IF pp_hist # None THEN pp_hist ELSE prev_hist
            hist_accel_up   == Gt(cur_hist, prev_hist) /\ Gt(prev_hist, pp)
            hist_accel_down == Lt(cur_hist, prev_hist) /\ Lt(prev_hist, pp)
            rsi_rising  == Gt(cur_rsi, prev_rsi)
            rsi_falling == Lt(cur_rsi, prev_rsi)
            higher_high == Gt(cur_high, prev_high)
            lower_low   == Lt(cur_low, prev_low)
        IN  IF AnyMissing(<<cur_rsi, prev_rsi, cur_hist, prev_hist>>)
            THEN FullVote("NEUTRAL", 0, "MACD: NaN")
            ELSE IF Le(45, cur_rsi) /\ Le(cur_rsi, 65) /\ rsi_rising
                    /\ Gt(cur_hist, 0) /\ hist_accel_up /\ higher_high
            THEN FullVote("BUY",
                          Min(3 + Bonus(Gt(cur_rsi, 55))
                                + Bonus(higher_high /\ Gt(cur_high, df.high[4])),
                              MAX_SCORE),
                          "MOM BUY")
            ELSE IF Le(35, cur_rsi) /\ Le(cur_rsi, 55) /\ rsi_falling
                    /\ Lt(cur_hist, 0) /\ hist_accel_down /\ lower_low
            THEN FullVote("SELL",
                          Min(3 + Bonus(Lt(cur_rsi, 45))
                                + Bonus(lower_low /\ Lt(cur_low, df.low[4])),
                              MAX_SCORE),
                          "MOM SELL")
            ELSE FullVote("NEUTRAL", 0, "MACD/RSI: no signal"),
        "MACD")

\* abs(cur_close - level) / level < 0.002, for a positive level
NearLevel(cur_close, level) ==
    cur_close # NaN /\ Abs(cur_close - level) * 1000 < 2 * level

\* cpr is <<>> for None or {}, else <<[has_levels, tc, bc, r1, s1, narrow]>>:
\* narrow is cpr_width_pct < 0.2, and a dict without the levels raises
\* KeyError at cpr["tc"]
model_cpr(df, cpr) ==
    Try(IF cpr = <<>>
        THEN FullVote("NEUTRAL", 0, "CPR: levels not available")
        ELSE IF ~cpr[1].has_levels THEN Raised("KeyError")
        ELSE
        LET cur_close  == Last(df, "close", 0)
            prev_close == Last(df, "close", 1)
            tc == cpr[1].tc
            bc == cpr[1].bc
            r1 == cpr[1].r1
            s1 == cpr[1].s1
            narrow == cpr[1].narrow
        IN  IF cur_close = None \/ prev_close = None
            THEN FullVote("NEUTRAL", 0, "CPR: no close data")
            ELSE IF Le(prev_close, tc) /\ Gt(cur_close, tc)
            THEN FullVote("BUY",
                          Min(3 + Bonus(narrow) + Bonus(NearLevel(cur_close, r1)),
                              MAX_SCORE),
                          "CPR BUY")
            ELSE IF Ge(prev_close, bc) /\ Lt(cur_close, bc)
            THEN FullVote("SELL",
                          Min(3 + Bonus(narrow) + Bonus(NearLevel(cur_close, s1)),
                              MAX_SCORE),
                          "CPR SELL")
            ELSE FullVote("NEUTRAL", 0, "CPR: no breakout"),
        "CPR")

\* model number k of scan_index's list, called as scan_index calls it
RunModel(k, df, cpr) ==
    CASE k = 1 -> model_orb(df)
      [] k = 2 -> model_vwap(df)
      [] k = 3 -> model_ema_trend(df)
      [] k = 4 -> model_momentum(df)
      [] k = 5 -> model_cpr(df, cpr)

-----------------------------------------------------------------------------
(* evaluate_outcome. A row of candles_after is [high, low] and its datetime *)
(* is its position in the frame; None is <<>> and a value v that is set is  *)
(* <<v>>.                                                                   *)

\* row k as iterrows yields it
Row(candles_after, k) ==
    [datetime |-> k, high |-> candles_after[k].high,
     low |-> candles_after[k].low]

InitialResult ==
    [entry_met      |-> FALSE,
     entry_met_time |-> <<>>,
     outcome        |-> "PENDING",
     exit_price     |-> <<>>,
     pnl_pct        |-> <<>>]

\* Entry assumed met if high >= entry (BUY) or low <= entry (SELL)
EntryTouched(direction, entry, row) ==
    IF direction = "BUY" THEN row.high >= entry ELSE row.low <= entry

\* as the exit check, with the target looked at before the stop-loss
ExitCheckTargetFirst(direction, sl, target_1, row, result) ==
    IF direction = "BUY"
    THEN IF row.high >= target_1
         THEN [result EXCEPT !.outcome = "TARGET_HIT", !.exit_price = <<target_1>>]
         ELSE IF row.low <= sl
         THEN [result EXCEPT !.outcome = "SL_HIT", !.exit_price = <<sl>>]
         ELSE result
    ELSE IF row.low <= target_1
         THEN [result EXCEPT !.outcome = "TARGET_HIT", !.exit_price = <<target_1>>]
         ELSE IF row.high >= sl
         THEN [result EXCEPT !.outcome = "SL_HIT", !.exit_price = <<sl>>]
         ELSE result

\* if result["entry_met"]: the stop-loss first, then the target; a hit ends
\* the loop (break)
ExitCheck(direction, sl, target_1, row, result) ==
    IF direction = "BUY"
    THEN IF row.low <= sl
         THEN [result EXCEPT !.outcome = "SL_HIT", !.exit_price = <<sl>>]
         ELSE IF row.high >= target_1
         THEN [result EXCEPT !.outcome = "TARGET_HIT", !.exit_price = <<target_1>>]
         ELSE result
    ELSE IF row.high >= sl
         THEN [result EXCEPT !.outcome = "SL_HIT", !.exit_price = <<sl>>]
         ELSE IF row.low <= target_1
         THEN [result EXCEPT !.outcome = "TARGET_HIT", !.exit_price = <<target_1>>]
         ELSE result

\* as the entry step, without the `continue`: the candle that meets the entry
\* goes on to the exit check
EntryStepFallsThrough(direction, entry, sl, target_1, row, result) ==
    IF EntryTouched(direction, entry, row)
    THEN ExitCheck(direction, sl, target_1, row,
                   [result EXCEPT !.entry_met = TRUE,
                                  !.entry_met_time = <<row.datetime>>])
    ELSE result

\* if not result["entry_met"]: ...; continue   # Skip SL/target check on
\* entry candle
EntryStep(direction, entry, sl, target_1, row, result) ==
    IF EntryTouched(direction, entry, row)
    THEN [result EXCEPT !.entry_met = TRUE, !.entry_met_time = <<row.datetime>>]
    ELSE result

\* one iteration of: for _, row in candles_after.iterrows()
LoopBody(direction, entry, sl, target_1, row, result) ==
    IF ~result.entry_met
    THEN EntryStep(direction, entry, sl, target_1, row, result)
    ELSE ExitCheck(direction, sl, target_1, row, result)

\* as the loop, without `break`: it goes on over the rows after a hit
RECURSIVE ReplayNoBreak(_, _, _, _, _, _, _)
ReplayNoBreak(direction, entry, sl, target_1, candles_after, k, result) ==
    IF k > Len(candles_after) THEN result
    ELSE ReplayNoBreak(direction, entry, sl, target_1, candles_after, k + 1,
                       LoopBody(direction, entry, sl, target_1,
                                Row(candles_after, k), result))

\* the loop over the rows from number k on, left at the first hit
RECURSIVE Replay(_, _, _, _, _, _, _)
Replay(direction, entry, sl, target_1, candles_after, k, result) ==
    IF k > Len(candles_after) THEN result
    ELSE LET r == LoopBody(direction, entry, sl, target_1,
                           Row(candles_after, k), result)
         IN  IF r.outcome # "PENDING" THEN r
             ELSE Replay(direction, entry, sl, target_1, candles_after,
                         k + 1, r)

\* as the final outcome, WATCHING whether or not the entry was met
FinalOutcomeAlwaysWatching(result) ==
    IF result.outcome = "PENDING"
    THEN [result EXCEPT !.outcome = "WATCHING"] ELSE result

\* if result["entry_met"] and result["outcome"] == "PENDING": WATCHING
FinalOutcome(result) ==
    IF result.entry_met /\ result.outcome = "PENDING"
    THEN [result EXCEPT !.outcome = "WATCHING"] ELSE result

\* if result["exit_price"] and result["entry_met"]: pnl_pct = round(pnl, 3),
\* in thousandths of a percent (no level tried puts the P/L on a decimal tie)
PnlPct(direction, entry, result) ==
    IF result.exit_price # <<>> /\ result.exit_price[1] # 0 /\ result.entry_met
    THEN LET gain == IF direction = "BUY" THEN result.exit_price[1] - entry
                                          ELSE entry - result.exit_price[1]
             pnl  == IF gain >= 0
                     THEN RoundDiv(gain * 100000, entry, FALSE)
                     ELSE 0 - RoundDiv((0 - gain) * 100000, entry, FALSE)
         IN  [result EXCEPT !.pnl_pct = <<pnl>>]
    ELSE result

\* evaluate_outcome(direction, entry, sl, target_1, candles_after); an empty
\* frame returns the initial result at once, as the loop over it does
evaluate_outcome(direction, entry, sl, target_1, candles_after) ==
    IF Len(candles_after) = 0 THEN InitialResult
    ELSE PnlPct(direction, entry,
                FinalOutcome(Replay(direction, entry, sl, target_1,
                                    candles_after, 1, InitialResult)))

-----------------------------------------------------------------------------
(* scan_index *)

NoSignal(why) == [sig |-> <<>>, log |-> why]

\* as the tally, with a tie or a bare majority going to BUY below the minimum
TallyMajorityOnly(results) ==
    LET b == Len(ModelsOf(results, "BUY"))
        s == Len(ModelsOf(results, "SELL"))
    IN  IF b >= s /\ b >= MIN_MODELS_AGREE - 1 THEN <<"BUY", b>>
        ELSE IF s > b /\ s >= MIN_MODELS_AGREE THEN <<"SELL", s>>
        ELSE <<>>

\* the tally: <<direction, agreeing>>, or <<>> when there is no consensus
Tally(results) ==
    LET b == Len(ModelsOf(results, "BUY"))
        s == Len(ModelsOf(results, "SELL"))
    IN  IF b >= s /\ b >= MIN_MODELS_AGREE THEN <<"BUY", b>>
        ELSE IF s > b /\ s >= MIN_MODELS_AGREE THEN <<"SELL", s>>
        ELSE <<>>

\* as the total score, with the bonus already at four agreeing models
TotalScoreBonusAtFour(results, agreeing) ==
    SumScores(results)
        + (IF agreeing >= NUM_MODELS - 1 THEN ALL_AGREE_BONUS ELSE 0)

\* total_score = sum(all_scores), plus the bonus when agreeing == 5
TotalScore(results, agreeing) ==
    SumScores(results) + (IF agreeing = NUM_MODELS THEN ALL_AGREE_BONUS ELSE 0)

\* as the dead zone gate, with the window's end excluded
DeadZoneGateEndExcluded(now, total_score) ==
    /\ ParseTime(DEAD_ZONE_START) <= now
    /\ now < ParseTime(DEAD_ZONE_END)
    /\ total_score < DEAD_ZONE_MIN_SCORE

\* the dead zone gate
DeadZoneGate(now, total_score) ==
    InDeadZone(now) /\ total_score < DEAD_ZONE_MIN_SCORE

\* as the VWAP trend filter, applied to the SELL side instead of the BUY side
VwapFilterSellSide(direction, cur_close, cur_vwap) ==
    direction = "SELL" /\ cur_vwap # NaN /\ cur_close < cur_vwap

\* the VWAP trend filter: if direction == "BUY": if not pd.isna(cur_vwap) and
\* cur_close < cur_vwap: return None
VwapFilter(direction, cur_close, cur_vwap) ==
    direction = "BUY" /\ cur_vwap # NaN /\ cur_close < cur_vwap

\* orb_level = or_low if direction == "BUY" else or_high
OrbLevel(direction, or_low, or_high) ==
    IF direction = "BUY" THEN or_low ELSE or_high

\* scan_index(index, cpr) with the values its calls return in `in`:
\*   rows   len(df) of fetch_15min_candles
\*   now    _ist_now().time()
\*   votes  the five model results
\*   close  df["close"].iloc[-1]
\*   vwap   df["vwap"].iloc[-1], or NaN
\*   or_low, or_high  df["or_low"].iloc[-1], df["or_high"].iloc[-1]
\*   round_up  the side on which round() finds each decimal tie
\* `stamp` stands for now.isoformat(), the signal's scan timestamp.
\* The result pairs the returned value (<<>> for None, <<signal>> otherwise)
\* with the line logged on the way out.
scan_index(index, stamp, in) ==
    IF in.rows < MIN_CANDLES THEN NoSignal("insufficient candles")
    ELSE IF ~InSignalWindow(in.now) THEN NoSignal("outside signal window")
    ELSE
      LET tally == Tally(in.votes) IN
      IF tally = <<>> THEN NoSignal("no consensus")
      ELSE
        LET direction   == tally[1]
            agreeing    == tally[2]
            total_score == TotalScore(in.votes, agreeing)
            grade       == Grade(total_score, agreeing)
        IN
        IF DeadZoneGate(in.now, total_score) THEN NoSignal("dead zone")
        ELSE IF grade = "WATCH" THEN NoSignal("below grade thresholds")
        ELSE IF VwapFilter(direction, in.close, in.vwap)
        THEN NoSignal("BUY filtered out")
        ELSE
          LET risk == calculate_risk(index, direction, in.close,
                                     OrbLevel(direction, in.or_low, in.or_high),
                                     in.round_up)
          IN  [sig |-> << [index       |-> index,
                           direction   |-> direction,
                           grade       |-> grade,
                           total_score |-> total_score,
                           agreeing    |-> agreeing,
                           entry       |-> risk.entry,
                           sl          |-> risk.sl,
                           target_1    |-> risk.target_1,
                           target_2    |-> risk.target_2,
                           rr_1        |-> risk.rr_1,
                           rr_2        |-> risk.rr_2,
                           risk_pts    |-> risk.risk_pts,
                           lot_size    |-> risk.lot_size,
                           timestamp   |-> stamp] >>,
               log |-> "Signal"]

-----------------------------------------------------------------------------
(* SpecScanIndex: scan_index over the values its calls can return *)

\* the clock values tried: each edge of the signal window and of the dead zone,
\* and the second before or after it
Times ==
    { ParseTime(SIGNAL_START) - 1,    ParseTime(SIGNAL_START),
      ParseTime(DEAD_ZONE_START) - 1, ParseTime(DEAD_ZONE_START),
      ParseTime(DEAD_ZONE_END),       ParseTime(DEAD_ZONE_END) + 1,
      ParseTime(SIGNAL_END),          ParseTime(SIGNAL_END) + 1 }

\* the candle series tried: too short, VWAP undefined, close below VWAP,
\* close at VWAP
\* (the opening range lies 50.00 to either side of the close)
Candles ==
    { [rows |-> MIN_CANDLES - 1, close |-> 450000, vwap |-> NaN],
      [rows |-> MIN_CANDLES,     close |-> 450000, vwap |-> NaN],
      [rows |-> MIN_CANDLES,     close |-> 450000, vwap |-> 450020],
      [rows |-> MIN_CANDLES,     close |-> 450000, vwap |-> 450000] }

\* the wall clock of a trading day as the cycles see it: before the signal
\* window opens, inside it, after it has closed
ClockTimes ==
    << ParseTime(SIGNAL_START) - 1, ParseTime(SIGNAL_START),
       ParseTime(SIGNAL_END) + 1 >>

IdleInput ==
    [rows |-> 0, now |-> 0, close |-> 0, vwap |-> NaN,
     or_low |-> NaN, or_high |-> NaN, round_up |-> NoTieUp,
     votes |-> [k \in 1 .. NUM_MODELS |-> Vote("NEUTRAL", 0)]]

InitOrch ==
    /\ scan_state = [running   |-> FALSE,
                     progress  |-> 0,
                     message   |-> [kind |-> "Idle", index |-> "", count |-> 0],
                     signals   |-> <<>>,
                     cprs      |-> <<>>,
                     timestamp |-> 0,
                     error     |-> "None"]
    /\ locked = FALSE
    /\ pc = [t \in 1 .. MaxCycles |-> "unstarted"]
    /\ i = [t \in 1 .. MaxCycles |-> 0]
    /\ l_cprs = [t \in 1 .. MaxCycles |-> <<>>]
    /\ l_signals = [t \in 1 .. MaxCycles |-> <<>>]
    /\ l_exc = [t \in 1 .. MaxCycles |-> "None"]
    /\ outcome = [t \in 1 .. MaxCycles |-> <<>>]
    /\ tpc = "idle"
    /\ committed = scan_state
    /\ clock = ClockTimes[1]

InitScanIndex ==
    /\ InitOrch
    /\ \E c \in Candles, n \in Times,
          v1 \in ModelVotes(1), v2 \in ModelVotes(2), v3 \in ModelVotes(3),
          v4 \in ModelVotes(4), v5 \in ModelVotes(5) :
          inp = [rows |-> c.rows, now |-> n, close |-> c.close, vwap |-> c.vwap,
                 or_low |-> c.close - 1000, or_high |-> c.close + 1000,
                 round_up |-> NoTieUp,
                 votes |-> <<v1, v2, v3, v4, v5>>]
    /\ out = NoSignal("")
    /\ phase = "call"

\* sig = scan_index(index, cpr=cpr)
ScanIndexCall ==
    /\ phase = "call"
    /\ out' = scan_index(INSTRUMENTS[1], 1, inp)
    /\ phase' = "returned"
    /\ UNCHANGED <<inp, orchVars>>

NextScanIndex == ScanIndexCall

SpecScanIndex == InitScanIndex /\ [][NextScanIndex]_vars

-----------------------------------------------------------------------------
(* SpecRisk: the risk plan of a signal, scan_index's call of calculate_risk *)

\* the latest closes tried: eleven consecutive ticks from 22500.00, a close
\* whose percentage stop is a decimal tie (22501.25 - 90.005), and two whose
\* stop and targets round in different directions (22501.00 and 101.00)
RiskCloses == (450000 .. 450010) \cup {450020, 450025, 2020}

\* the opening-range levels tried around a close: absent (0), NaN, and 100.00,
\* 80.00, 50.00 and one tick to either side of the close, and the close itself
OrLevels(close) ==
    {0, NaN, close - 2000, close - 1600, close - 1000, close - 1, close,
     close + 1, close + 1000, close + 1600, close + 2000}

InitRisk ==
    /\ InitOrch
    /\ \E index \in {INSTRUMENTS[1], INSTRUMENTS[2]},
          direction \in {"BUY", "SELL"}, close \in RiskCloses,
          up \in TieChoices :
          \E lo \in OrLevels(close), hi \in OrLevels(close) :
            inp = [index |-> index, direction |-> direction, close |-> close,
                   or_low |-> lo, or_high |-> hi, round_up |-> up]
    /\ out = NoSignal("")
    /\ phase = "call"

\* risk = calculate_risk(index, direction, cur_close, or_level=orb_level)
RiskCall ==
    /\ phase = "call"
    /\ out' = calculate_risk(inp.index, inp.direction, inp.close,
                             OrbLevel(inp.direction, inp.or_low, inp.or_high),
                             inp.round_up)
    /\ phase' = "returned"
    /\ UNCHANGED <<inp, orchVars>>

NextRisk == RiskCall

SpecRisk == InitRisk /\ [][NextRisk]_vars

-----------------------------------------------------------------------------
(* SpecRsi: rsi on a series of closes *)

\* the closes tried: each row may rise, fall or stay
SeriesCloses == {1000, 1001, 1003}

InitRsi ==
    /\ InitOrch
    /\ \E n \in 1 .. MaxSeries : \E series \in [1 .. n -> SeriesCloses] :
          inp = [series |-> series]
    /\ out = <<>>
    /\ phase = "call"

\* df["rsi14"] = rsi(df["close"], 14)
RsiCall ==
    /\ phase = "call"
    /\ out' = rsi(inp.series)
    /\ phase' = "returned"
    /\ UNCHANGED <<inp, orchVars>>

NextRsi == RsiCall

SpecRsi == InitRsi /\ [][NextRsi]_vars

-----------------------------------------------------------------------------
(* SpecCpr: cpr_levels on the previous day's candle *)

\* the lows tried, around 100.00, and the ranges high - low: every range up to
\* 0.15 and a wide one of 3.00
PrevLows   == 10000 .. 10005
PrevRanges == (0 .. 15) \cup {300}
\* how far outside the day's range a close is tried
CloseSlack == 2

NoLevels ==
    [pivot |-> 0, tc |-> 0, bc |-> 0, r1 |-> 0, r2 |-> 0, s1 |-> 0, s2 |-> 0,
     cpr_width_pct |-> 0]

InitCpr ==
    /\ InitOrch
    /\ \E lo \in PrevLows, rg \in PrevRanges, up \in CprTieChoices :
          \E cl \in (lo - CloseSlack) .. (lo + rg + CloseSlack) :
             inp = [prev_high |-> lo + rg, prev_low |-> lo, prev_close |-> cl,
                    round_up |-> up]
    /\ out = NoLevels
    /\ phase = "call"

\* return cpr_levels(prev["high"], prev["low"], prev["close"])
CprCall ==
    /\ phase = "call"
    /\ out' = cpr_levels(inp.prev_high, inp.prev_low, inp.prev_close,
                         inp.round_up)
    /\ phase' = "returned"
    /\ UNCHANGED <<inp, orchVars>>

NextCpr == CprCall

SpecCpr == InitCpr /\ [][NextCpr]_vars

-----------------------------------------------------------------------------
(* SpecModels: one model called on one enriched frame *)

\* a frame on which no model has anything to say; the frames tried below
\* vary the columns their model reads
QuietFrame ==
    [rows        |-> 60,
     close       |-> <<1000, 1000>>,
     open        |-> <<1000>>,
     high        |-> <<1005, 1005, 1005, 1005>>,
     low         |-> <<995, 995, 995, 995>>,
     volume      |-> <<10>>,
     avg_vol     |-> <<10>>,
     or_high     |-> <<1010>>,
     or_low      |-> <<990>>,
     first_open  |-> 1000,
     first_close |-> 1000,
     vwap        |-> <<1000, 1000>>,
     rsi14       |-> <<50, 50>>,
     ema9        |-> <<1000>>,
     ema21       |-> <<1000>>,
     ema50       |-> <<1000>>,
     macd_hist   |-> <<0, 0, 0>>]

CprFull(narrow) ==
    <<[has_levels |-> TRUE, tc |-> 1020, bc |-> 980, r1 |-> 1030, s1 |-> 970,
       narrow |-> narrow]>>
CprNoLevels ==
    <<[has_levels |-> FALSE, tc |-> 0, bc |-> 0, r1 |-> 0, s1 |-> 0,
       narrow |-> FALSE]>>

OrbFrames ==
    {[QuietFrame EXCEPT !.rows = n, !.or_high = <<o[1]>>, !.or_low = <<o[2]>>,
                        !.close = <<c, 1000>>, !.open = <<op>>,
                        !.volume = <<v>>, !.avg_vol = <<a>>,
                        !.high = <<h, 1005, 1005, 1005>>,
                        !.first_open = fo] :
       n \in {0, 1, 2, 3}, o \in {<<NaN, NaN>>, <<1010, 990>>},
       c \in {NaN, 980, 990, 1000, 1010, 1020}, op \in {1000, 1017},
       v \in {NaN, 10, 15, 20}, a \in {NaN, 0, 10}, h \in {995, 1005},
       fo \in {999, 1001}}

VwapFrames ==
    {[QuietFrame EXCEPT !.rows = n, !.close = <<c, prev>>, !.open = <<op>>,
                        !.vwap = <<w, pw>>, !.rsi14 = <<r, 50>>] :
       n \in {2, 3}, c \in {NaN, 990, 1010}, prev \in {NaN, 990, 1010},
       op \in {985, 1015}, w \in {NaN, 1000}, pw \in {NaN, 1000},
       r \in {NaN, 25, 35, 50, 65, 75}}

EmaFrames ==
    {[QuietFrame EXCEPT !.rows = n, !.close = <<c, 1000>>, !.open = <<op>>,
                        !.ema9 = <<e[1]>>, !.ema21 = <<e[2]>>,
                        !.ema50 = <<e[3]>>,
                        !.low = <<995, pl, 995, 995>>,
                        !.high = <<1005, ph, 1005, 1005>>] :
       n \in {50, 51}, c \in {NaN, 990, 1010}, op \in {985, 1015},
       e \in {NaN, 1000, 1001, 1002, 1004} \X {NaN, 1000, 1001, 1002, 1004}
              \X {NaN, 1000, 1001, 1002, 1004},
       pl \in {1000, 1003, 1010}, ph \in {990, 1001}}

MomentumFrames ==
    {[QuietFrame EXCEPT !.rows = n, !.rsi14 = <<r, pr>>,
                        !.macd_hist = <<m[1], m[2], m[3]>>,
                        !.high = <<hl[1], 1005, 1005, hl[2]>>,
                        !.low = <<hl[3], 995, 995, hl[4]>>] :
       n \in {4, 5}, r \in {NaN, 40, 50, 60}, pr \in {NaN, 45, 55},
       m \in {NaN, -20, -10, 10, 20} \X {NaN, -20, -10, 10, 20}
              \X {NaN, -20, -10, 10, 20},
       hl \in {1004, 1006} \X {1005, 1007} \X {994, 996} \X {993, 995}}

CprFrames ==
    {[QuietFrame EXCEPT !.rows = n, !.close = <<c, prev>>] :
       n \in {0, 1, 2},
       c \in {969, 975, 980, 1000, 1020, 1025, 1029},
       prev \in {969, 975, 980, 1000, 1020, 1025, 1029}}

ModelFrames(k) ==
    CASE k = 1 -> OrbFrames
      [] k = 2 -> VwapFrames
      [] k = 3 -> EmaFrames
      [] k = 4 -> MomentumFrames
      [] k = 5 -> CprFrames

ModelCprs(k) ==
    IF k = 5 THEN {<<>>, CprNoLevels, CprFull(TRUE), CprFull(FALSE)}
    ELSE {CprFull(FALSE)}

InitModels ==
    /\ InitOrch
    /\ \E k \in 1 .. NUM_MODELS :
          \E df \in ModelFrames(k), cpr \in ModelCprs(k) :
             inp = [model |-> k, df |-> df, cpr |-> cpr]
    /\ out = FullVote("NEUTRAL", 0, "")
    /\ phase = "call"

\* result = fn(df), resp. fn(df, cpr)
ModelCall ==
    /\ phase = "call"
    /\ out' = RunModel(inp.model, inp.df, inp.cpr)
    /\ phase' = "returned"
    /\ UNCHANGED <<inp, orchVars>>

NextModels == ModelCall

SpecModels == InitModels /\ [][NextModels]_vars

-----------------------------------------------------------------------------
(* SpecScanFrames: scan_index with the five models run on the enriched frame *)

\* results = [m1, m2, m3, m4, m5], each model run on df (and cpr)
Results(df, cpr) == [k \in 1 .. NUM_MODELS |-> RunModel(k, df, cpr)]

\* scan_index from the enriched frame on: the models are run on df and the
\* rest of the function works on their votes; `results` is kept with the
\* returned value for the properties to read
ScanFrame(index, stamp, df, cpr, now, up) ==
    LET results == Results(df, cpr)
        r == scan_index(index, stamp,
                 [rows |-> df.rows, now |-> now,
                  close |-> Last(df, "close", 0), vwap |-> Last(df, "vwap", 0),
                  or_low |-> df.or_low[1], or_high |-> df.or_high[1],
                  round_up |-> up,
                  votes |-> [k \in 1 .. NUM_MODELS |->
                               Vote(results[k].direction, results[k].score)]])
    IN  [sig |-> r.sig, log |-> r.log, results |-> results]

\* the frames tried: a day's 26 candles, 50 and 51 rows; the close above,
\* inside and below the opening range (990..1010) and the central range
\* (980..1020); RSI, histogram, averages, extremes and volume each on the
\* BUY side, the SELL side or neither of the model that reads them
ScanFrames ==
    {[QuietFrame EXCEPT !.rows = n, !.close = <<c, prev>>,
                        !.rsi14 = <<r, pr>>, !.macd_hist = m, !.ema9 = <<e[1]>>,
                        !.ema21 = <<e[2]>>, !.ema50 = <<e[3]>>,
                        !.high = <<h, 1005, 1005, 1005>>,
                        !.low = <<l, 995, 995, 995>>, !.volume = <<v>>] :
       n \in {26, 50, 51}, c \in {975, 1000, 1025}, prev \in {990, 1010},
       r \in {25, 38, 50, 62, 75}, pr \in {45, 55},
       m \in {<<30, 20, 10>>, <<0, 0, 0>>, <<-30, -20, -10>>},
       e \in {<<1004, 1002, 1000>>, <<1000, 1000, 1000>>, <<1000, 1002, 1004>>},
       h \in {1000, 1030}, l \in {970, 1000}, v \in {10, 20}}

ScanTimes ==
    {ParseTime(SIGNAL_START), ParseTime(DEAD_ZONE_START),
     ParseTime(SIGNAL_END) + 1}

InitScanFrames ==
    /\ InitOrch
    /\ \E df \in ScanFrames, cpr \in {<<>>, CprFull(TRUE)}, n \in ScanTimes :
          inp = [df |-> df, cpr |-> cpr, now |-> n, round_up |-> NoTieUp]
    /\ out = [sig |-> <<>>, log |-> "", results |-> <<>>]
    /\ phase = "call"

\* sig = scan_index(index, cpr=cpr), from the fetched candles on
ScanFrameCall ==
    /\ phase = "call"
    /\ out' = ScanFrame(INSTRUMENTS[1], 1, inp.df, inp.cpr, inp.now,
                        inp.round_up)
    /\ phase' = "returned"
    /\ UNCHANGED <<inp, orchVars>>

NextScanFrames == ScanFrameCall

SpecScanFrames == InitScanFrames /\ [][NextScanFrames]_vars

-----------------------------------------------------------------------------
(* SpecOutcome: evaluate_outcome over the candles after a signal *)

\* the plans tried, as /api/prices hands them over (it refuses a zero entry,
\* stop-loss or target): a BUY and a SELL around 300
Plans ==
    { [direction |-> "BUY",  entry |-> 300, sl |-> 298, target_1 |-> 302],
      [direction |-> "SELL", entry |-> 300, sl |-> 302, target_1 |-> 297] }

\* the prices of a candle: each level of the two plans and the prices between
CandlePrices == 297 .. 302

\* the candles: every low <= high over CandlePrices
HighLows ==
    {c \in [high : CandlePrices, low : CandlePrices] : c.high >= c.low}

\* the frames of n candles
Frames(n) == [1 .. n -> HighLows]

InitOutcome ==
    /\ InitOrch
    /\ \E plan \in Plans, n \in 0 .. MaxCandles :
          \E candles_after \in Frames(n) :
             inp = [direction |-> plan.direction, entry |-> plan.entry,
                    sl |-> plan.sl, target_1 |-> plan.target_1,
                    candles_after |-> candles_after]
    /\ out = InitialResult
    /\ phase = "call"

\* outcome = evaluate_outcome(direction, entry, sl, target_1, candles)
OutcomeCall ==
    /\ phase = "call"
    /\ out' = evaluate_outcome(inp.direction, inp.entry, inp.sl, inp.target_1,
                               inp.candles_after)
    /\ phase' = "returned"
    /\ UNCHANGED <<inp, orchVars>>

NextOutcome == OutcomeCall

SpecOutcome == InitOutcome /\ [][NextOutcome]_vars

-----------------------------------------------------------------------------
(* Spec: run_scan_background and the _scan threads *)

Threads == 1 .. MaxCycles
NumInstruments == Len(INSTRUMENTS)

Msg(kind, index, count) == [kind |-> kind, index |-> index, count |-> count]

\* what scan_index's calls find at wall-clock time `now`: a strong consensus
\* (a signal when the time is in the signal window), or five NEUTRAL votes
\* (no signal)
ScanInputs(now) ==
    { [rows |-> MIN_CANDLES, now |-> now,
       close |-> 450000, vwap |-> NaN,
       or_low |-> 449000, or_high |-> 451000, round_up |-> NoTieUp,
       votes |-> [k \in 1 .. NUM_MODELS |-> Vote("BUY", 4)]],
      [rows |-> MIN_CANDLES, now |-> now,
       close |-> 450000, vwap |-> NaN,
       or_low |-> 449000, or_high |-> 451000, round_up |-> NoTieUp,
       votes |-> [k \in 1 .. NUM_MODELS |-> Vote("NEUTRAL", 0)]] }

\* threading.Lock.acquire: blocks while the lock is held
LockIgnored(l) == TRUE
CanAcquire(l) == ~l

\* the statement that follows each `with _scan_lock:` of _scan
AfterAcquire ==
    [init_acq |-> "init_running", prog_acq |-> "prog_progress",
     msg_acq  |-> "msg_message",  pub_acq  |-> "pub_signals",
     exc_acq  |-> "exc_error",    fin_acq  |-> "fin_running"]

\* as the statements after the blocks, without the finally clause after the
\* outer handler
AfterReleaseNoFinally ==
    [init_rel |-> "prog_acq", prog_rel |-> "fetch",   msg_rel |-> "scan",
     pub_rel  |-> "fin_acq",  exc_rel  |-> "done",    fin_rel |-> "done"]

\* the statement that follows the end of each `with _scan_lock:` block
AfterRelease ==
    [init_rel |-> "prog_acq", prog_rel |-> "fetch",   msg_rel |-> "scan",
     pub_rel  |-> "fin_acq",  exc_rel  |-> "fin_acq", fin_rel |-> "done"]

\* the positions at which a thread holds _scan_lock
InCS ==
    {"init_running", "init_progress", "init_message", "init_error",
     "init_signals", "init_rel", "prog_progress", "prog_message", "prog_rel",
     "msg_message", "msg_rel", "pub_signals", "pub_cprs", "pub_progress",
     "pub_message", "pub_timestamp", "pub_rel", "exc_error", "exc_message",
     "exc_rel", "fin_running", "fin_rel"}

\* for i, index in enumerate(INSTRUMENTS.keys()): after instrument number k
LoopExitsEarly(k) == IF k < NumInstruments - 1 THEN "prog_acq" ELSE "pub_acq"
LoopNext(k) == IF k < NumInstruments THEN "prog_acq" ELSE "pub_acq"

\* except Exception as e: logger.error(...) of the per-instrument try: the
\* loop goes on at `next` and nothing reaches the outer handler
ScanErrorPropagates(next) == [pc |-> "exc_acq", exc |-> "FetchError"]
ScanErrorHandler(next) == [pc |-> next, exc |-> "None"]

\* scan_state["signals"] = signals
PublishAppends(old, new) == old \o new
PublishSignals(old, new) == new

\* int((i / len(INSTRUMENTS)) * 80)
Progress(k) == (k * PROGRESS_SPAN) \div NumInstruments

\* _fetch_cpr returns a dict in every case: the levels, or {} when the daily
\* frame is empty or the fetch raised (the exception is caught inside). The
\* orchestrator only stores the dict, whose content is left abstract.
FetchCprResult(resp) == "cpr"

\* /api/results: return jsonify(dict(scan_state)). The handler takes no lock
\* and writes nothing: a poller can be handed the scan_state of any state.
results == scan_state

Init ==
    /\ InitOrch
    /\ inp = IdleInput
    /\ out = NoSignal("")
    /\ phase = "off"

--------------------------------------------------------------------------
(* run_scan_background, on the request thread *)

\* with _scan_lock: if scan_state["running"]: ...
TriggerCheck ==
    /\ tpc = "idle"
    /\ \E t \in Threads : pc[t] = "unstarted"
    /\ CanAcquire(locked)
    /\ locked' = TRUE
    /\ tpc' = IF scan_state.running THEN "skip" ELSE "go"
    /\ UNCHANGED <<scan_state, pc, i, l_cprs, l_signals, l_exc, outcome, pureVars, committed, clock>>

\* "Scan already running - skipping."; return (the lock is released)
TriggerSkip ==
    /\ tpc = "skip"
    /\ locked' = FALSE
    /\ tpc' = "idle"
    /\ UNCHANGED <<scan_state, pc, i, l_cprs, l_signals, l_exc, outcome, pureVars, committed, clock>>

\* the end of the with block when no scan is running
TriggerLeave ==
    /\ tpc = "go"
    /\ locked' = FALSE
    /\ tpc' = "start"
    /\ UNCHANGED <<scan_state, pc, i, l_cprs, l_signals, l_exc, outcome, pureVars, committed, clock>>

\* t = threading.Thread(target=_scan, daemon=True); t.start(); return t
TriggerStart ==
    /\ tpc = "start"
    /\ \E t \in Threads :
         /\ pc[t] = "unstarted"
         /\ \A u \in Threads : u < t => pc[u] # "unstarted"
         /\ pc' = [pc EXCEPT ![t] = "init_acq"]
    /\ tpc' = "idle"
    /\ UNCHANGED <<scan_state, locked, i, l_cprs, l_signals, l_exc, outcome, pureVars, committed, clock>>

--------------------------------------------------------------------------
(* _scan, on a background thread t *)

\* with _scan_lock: (entry)
Acquire(t) ==
    /\ pc[t] \in DOMAIN AfterAcquire
    /\ CanAcquire(locked)
    /\ locked' = TRUE
    /\ pc' = [pc EXCEPT ![t] = AfterAcquire[pc[t]]]
    /\ UNCHANGED <<scan_state, i, l_cprs, l_signals, l_exc, outcome, tpc, pureVars, committed, clock>>

\* with _scan_lock: (exit). The loop's locals are not read after the
\* publishing block and are dropped there; leaving the last block ends the
\* thread.
Release(t) ==
    /\ pc[t] \in DOMAIN AfterRelease
    /\ locked' = FALSE
    /\ pc' = [pc EXCEPT ![t] = AfterRelease[pc[t]]]
    /\ IF pc[t] \in {"pub_rel", "fin_rel"}
       THEN /\ i' = [i EXCEPT ![t] = 0]
            /\ l_cprs' = [l_cprs EXCEPT ![t] = <<>>]
            /\ l_signals' = [l_signals EXCEPT ![t] = <<>>]
       ELSE UNCHANGED <<i, l_cprs, l_signals>>
    /\ outcome' = IF pc[t] = "fin_rel" THEN [outcome EXCEPT ![t] = <<>>]
                                       ELSE outcome
    /\ committed' = scan_state
    /\ UNCHANGED <<scan_state, l_exc, tpc, pureVars, clock>>

\* scan_state[field] = value, at position `from`, going on at `to`
Write(t, from, to, field, value) ==
    /\ pc[t] = from
    /\ scan_state' = [scan_state EXCEPT ![field] = value]
    /\ pc' = [pc EXCEPT ![t] = to]
    /\ UNCHANGED <<locked, i, l_cprs, l_signals, l_exc, outcome, tpc, pureVars, committed, clock>>

InitRunning(t)  == Write(t, "init_running", "init_progress", "running", TRUE)
InitProgress(t) == Write(t, "init_progress", "init_message", "progress", 0)
InitMessage(t)  == Write(t, "init_message", "init_error", "message",
                         Msg("Starting scan...", "", 0))
InitError(t)    == Write(t, "init_error", "init_signals", "error", "None")
InitSignals(t)  == Write(t, "init_signals", "init_rel", "signals", <<>>)

ProgProgress(t) == Write(t, "prog_progress", "prog_message", "progress",
                         Progress(i[t]))
ProgMessage(t)  == Write(t, "prog_message", "prog_rel", "message",
                         Msg("Fetching CPR", INSTRUMENTS[i[t] + 1], 0))

\* cpr = _fetch_cpr(index); cprs[index] = cpr
FetchCpr(t) ==
    /\ pc[t] = "fetch"
    /\ \E resp \in {"ok", "empty", "raise"} :
         l_cprs' = [l_cprs EXCEPT
                      ![t] = (INSTRUMENTS[i[t] + 1] :> FetchCprResult(resp)) @@ @]
    /\ pc' = [pc EXCEPT ![t] = "msg_acq"]
    /\ UNCHANGED <<scan_state, locked, i, l_signals, l_exc, outcome, tpc, pureVars, committed, clock>>

MsgMessage(t)   == Write(t, "msg_message", "msg_rel", "message",
                         Msg("Scanning", INSTRUMENTS[i[t] + 1], 0))

\* sig = scan_index(index, cpr=cpr); if sig: signals.append(sig)
ScanReturns(t) ==
    /\ pc[t] = "scan"
    /\ \E in \in ScanInputs(clock) :
         LET r == scan_index(INSTRUMENTS[i[t] + 1], t, in) IN
         /\ l_signals' = [l_signals EXCEPT ![t] = @ \o r.sig]
         /\ outcome' = [outcome EXCEPT
              ![t] = Append(@, IF r.sig = <<>> THEN "none" ELSE "signal")]
    /\ i' = [i EXCEPT ![t] = @ + 1]
    /\ pc' = [pc EXCEPT ![t] = LoopNext(i[t] + 1)]
    /\ UNCHANGED <<scan_state, locked, l_cprs, l_exc, tpc, pureVars, committed, clock>>

\* scan_index raises (a data fetch or the credential call failed):
\* except Exception as e: logger.error(f"Error scanning {index}: {e}")
ScanRaises(t) ==
    /\ pc[t] = "scan"
    /\ LET h == ScanErrorHandler(LoopNext(i[t] + 1)) IN
         /\ pc' = [pc EXCEPT ![t] = h.pc]
         /\ l_exc' = [l_exc EXCEPT ![t] = h.exc]
    /\ outcome' = [outcome EXCEPT ![t] = Append(@, "raised")]
    /\ i' = [i EXCEPT ![t] = @ + 1]
    /\ UNCHANGED <<scan_state, locked, l_cprs, l_signals, tpc, pureVars, committed, clock>>

\* an exception raised in the try body outside the per-instrument handler:
\* except Exception as e: logger.exception(f"Scan error: {e}")
\* (the handlers read none of the loop's locals, which are dropped)
OuterRaise(t) ==
    /\ pc[t] \in {"fetch", "scan"}
    /\ pc' = [pc EXCEPT ![t] = "exc_acq"]
    /\ l_exc' = [l_exc EXCEPT ![t] = "Unexpected"]
    /\ i' = [i EXCEPT ![t] = 0]
    /\ l_cprs' = [l_cprs EXCEPT ![t] = <<>>]
    /\ l_signals' = [l_signals EXCEPT ![t] = <<>>]
    /\ outcome' = [outcome EXCEPT ![t] = <<>>]
    /\ UNCHANGED <<scan_state, locked, tpc, pureVars, committed, clock>>

PubSignals(t)   == Write(t, "pub_signals", "pub_cprs", "signals",
                         PublishSignals(scan_state.signals, l_signals[t]))
PubCprs(t)      == Write(t, "pub_cprs", "pub_progress", "cprs", l_cprs[t])
PubProgress(t)  == Write(t, "pub_progress", "pub_message", "progress",
                         PROGRESS_DONE)
PubMessage(t)   == Write(t, "pub_message", "pub_timestamp", "message",
                         Msg("Scan complete", "", Len(l_signals[t])))
\* datetime.now(tz=IST).isoformat(): the publishing thread's number stands
\* for the instant
PubTimestamp(t) == Write(t, "pub_timestamp", "pub_rel", "timestamp", t)

ExcError(t)     == Write(t, "exc_error", "exc_message", "error", l_exc[t])
ExcMessage(t)   == Write(t, "exc_message", "exc_rel", "message",
                         Msg("Scan failed", l_exc[t], 0))

FinRunning(t)   == Write(t, "fin_running", "fin_rel", "running", FALSE)

\* time passes: datetime.now(tz=IST) returns a later time of the day
Tick ==
    /\ \E k \in DOMAIN ClockTimes : ClockTimes[k] > clock /\ clock' = ClockTimes[k]
    /\ UNCHANGED <<scan_state, locked, pc, i, l_cprs, l_signals, l_exc, outcome,
                   tpc, committed, pureVars>>

\* a step of the background thread t
ScanStep(t) ==
    \/ Acquire(t)
    \/ Release(t)
    \/ InitRunning(t)
    \/ InitProgress(t)
    \/ InitMessage(t)
    \/ InitError(t)
    \/ InitSignals(t)
    \/ ProgProgress(t)
    \/ ProgMessage(t)
    \/ FetchCpr(t)
    \/ MsgMessage(t)
    \/ ScanReturns(t)
    \/ ScanRaises(t)
    \/ OuterRaise(t)
    \/ PubSignals(t)
    \/ PubCprs(t)
    \/ PubProgress(t)
    \/ PubMessage(t)
    \/ PubTimestamp(t)
    \/ ExcError(t)
    \/ ExcMessage(t)
    \/ FinRunning(t)

Next ==
    \/ TriggerCheck
    \/ TriggerSkip
    \/ TriggerLeave
    \/ TriggerStart
    \/ Tick
    \/ \E t \in Threads : ScanStep(t)

Spec == Init /\ [][Next]_vars

\* Scheduling: a started thread keeps being run, every external call it makes
\* returns or raises, and the request thread leaves its `with` block. Trigger
\* requests may keep taking the lock for ever, so a thread blocked in
\* `with _scan_lock:` needs the lock handed to it at one of the endlessly many
\* releases: strong fairness on its acquisition.
Fairness ==
    /\ \A t \in Threads : WF_vars(ScanStep(t)) /\ SF_vars(Acquire(t))
    /\ WF_vars(TriggerSkip \/ TriggerLeave)

SpecLive == Init /\ [][Next]_vars /\ Fairness

-----------------------------------------------------------------------------
(* Claims about the orchestrator (Spec) *)

AllInstruments == {INSTRUMENTS[k] : k \in 1 .. 2}
\* thread t is inside the try block of _scan
InTry(t) == pc[t] \notin {"unstarted", "init_acq", "init_running",
                          "init_progress", "init_message", "init_error",
                          "init_signals", "init_rel", "fin_acq", "fin_running",
                          "fin_rel", "done"}
\* every instrument's pivot fetch and scan_index call has returned or raised
AllProcessed(t) ==
    /\ i[t] = 2
    /\ Len(outcome[t]) = 2
    /\ DOMAIN l_cprs[t] = AllInstruments
RaisedSome(t) == \E k \in DOMAIN outcome[t] : outcome[t][k] = "raised"
\* the instruments for which scan_index returned a signal in thread t's cycle
Succeeded(t) == {INSTRUMENTS[k] : k \in {j \in DOMAIN outcome[t] : outcome[t][j] = "signal"}}
IndexesOf(sigs) == {sigs[k].index : k \in DOMAIN sigs}
\* the complete state, as thread t's cycle publishes it
CompleteBy(t) ==
    /\ scan_state.progress = 100
    /\ scan_state.message.kind = "Scan complete"
    /\ scan_state.timestamp = t
    /\ scan_state.signals = l_signals[t]

\* C1: at most one scan cycle is active: a trigger issued after an earlier
\* trigger returned and before that cycle finished starts no cycle, so no two
\* threads are inside the try block of _scan at the same time.
C1_AtMostOneCycle ==
    \A t, u \in Threads : t # u => ~(InTry(t) /\ InTry(u))

\* C2: progress becomes 100, with the 'Scan complete' message and a new
\* last-completed timestamp, only in a step of a thread whose cycle has
\* processed every configured instrument.
C2_CompleteAfterAll ==
    [][ ( \/ scan_state'.progress = 100 /\ scan_state.progress # 100
          \/ scan_state'.timestamp # scan_state.timestamp
          \/ /\ scan_state'.message.kind = "Scan complete"
             /\ scan_state.message.kind # "Scan complete" )
        => \E t \in Threads : pc'[t] # pc[t] /\ AllProcessed(t) ]_vars

\* a cycle has published the complete state
C2_Witness ==
    \E t \in Threads : pc[t] = "pub_rel" /\ CompleteBy(t) /\ AllProcessed(t)

\* C3: a scan_index call that raises does not abort the cycle: the thread
\* never enters the outer handler because of it, it reaches the publishing
\* block only after every instrument was fetched and scanned, and what it
\* publishes is the complete state with the signals of the instruments whose
\* scan succeeded.
C3_InstrumentFailureIsolated ==
    \A t \in Threads :
      RaisedSome(t) =>
        /\ l_exc[t] = "None"
        /\ pc[t] \notin {"exc_acq", "exc_error", "exc_message", "exc_rel"}
        /\ pc[t] \in {"pub_acq", "pub_signals", "pub_cprs", "pub_progress",
                      "pub_message", "pub_timestamp", "pub_rel"}
             => AllProcessed(t) /\ IndexesOf(l_signals[t]) = Succeeded(t)
        /\ pc[t] = "pub_rel" => CompleteBy(t)

\* the first instrument raised, the second gave a signal, and the cycle
\* published the complete state with that one signal
C3_Witness ==
    \E t \in Threads :
      /\ pc[t] = "pub_rel"
      /\ outcome[t] = <<"raised", "signal">>
      /\ CompleteBy(t)
      /\ IndexesOf(scan_state.signals) = {INSTRUMENTS[2]}

\* C4 as claimed: a cycle in which scan_index raised, and which no later
\* failure ended, finishes with the last-error field set.
C4_TerminalFailureRecorded ==
    \A t \in Threads :
      pc[t] = "fin_rel" /\ RaisedSome(t) /\ l_exc[t] = "None"
        => scan_state.error # "None"

\* C4, amended: a failure of scan_index is caught by the per-instrument
\* handler and never reaches the last-error field: the field is null or holds
\* an exception raised outside the per-instrument handler, written by the
\* outer handler of a thread that caught one.
C4_ErrorOnlyFromOuterHandler ==
    /\ scan_state.error \in {"None", "Unexpected"}
    /\ scan_state.error # "None" =>
         \E t \in Threads :
           /\ l_exc[t] = "Unexpected"
           /\ pc[t] \in {"exc_message", "exc_rel", "fin_acq", "fin_running",
                         "fin_rel", "done"}
    /\ \A t \in Threads : l_exc[t] # "FetchError"

\* a cycle in which scan_index raised is finishing, complete, with the
\* last-error field null
C4_Witness ==
    \E t \in Threads :
      /\ pc[t] = "fin_rel" /\ RaisedSome(t) /\ l_exc[t] = "None"
      /\ scan_state.error = "None"
      /\ scan_state.progress = 100

\* the threads, request thread included, inside a `with _scan_lock:` block
NumInCS ==
    Cardinality({t \in Threads : pc[t] \in InCS})
        + (IF tpc \in {"skip", "go"} THEN 1 ELSE 0)

\* C5: every write to a scan_state field is a step of a scan thread that
\* holds _scan_lock before and after it, and at most one thread is inside a
\* critical section at any time.
C5_WritesUnderLock ==
    /\ [](NumInCS <= 1 /\ (locked <=> NumInCS = 1))
    /\ [][ scan_state' # scan_state =>
             /\ locked /\ locked'
             /\ tpc' = tpc
             /\ \E t \in Threads :
                  /\ pc[t] \in InCS /\ pc'[t] \in InCS /\ pc'[t] # pc[t]
                  /\ \A u \in Threads \ {t} : pc'[u] = pc[u] ]_vars

\* one thread has written inside its critical section while another waits
\* for the lock
C5_Witness ==
    \E t, u \in Threads :
      /\ t # u
      /\ pc[t] = "pub_progress"
      /\ pc[u] \in DOMAIN AfterAcquire
      /\ locked

\* C6: the signals buffer never mixes cycles: its signals carry one scan
\* timestamp, at most one per instrument, and once a cycle has written the
\* buffer in its publishing block the buffer is exactly that cycle's list,
\* the signals its own scan_index calls returned.
C6_BufferOverwritten ==
    /\ Len(scan_state.signals) <= 2
    /\ \A j, k \in DOMAIN scan_state.signals :
         /\ scan_state.signals[j].timestamp = scan_state.signals[k].timestamp
         /\ j # k => scan_state.signals[j].index # scan_state.signals[k].index
    /\ \A t \in Threads :
         pc[t] \in {"pub_cprs", "pub_progress", "pub_message", "pub_timestamp",
                    "pub_rel"} =>
           /\ scan_state.signals = l_signals[t]
           /\ IndexesOf(scan_state.signals) = Succeeded(t)
           /\ \A k \in DOMAIN scan_state.signals :
                scan_state.signals[k].timestamp = t

\* a later cycle has replaced an earlier cycle's published signals by its own
C6_Witness ==
    \E t, u \in Threads :
      /\ t # u
      /\ scan_state.timestamp = u
      /\ pc[u] = "fin_acq" /\ Succeeded(u) = {INSTRUMENTS[1]}
      /\ pc[t] = "pub_cprs" /\ Succeeded(t) = {INSTRUMENTS[2]}
      /\ IndexesOf(scan_state.signals) = {INSTRUMENTS[2]}

-----------------------------------------------------------------------------
(* Claims about scan_index (SpecScanIndex) *)

Returned  == phase = "returned"
Published == Returned /\ out.sig # <<>>
Sig       == out.sig[1]

\* the votes counted directly on the input, not through the tally
NumVotes(d) == Cardinality({k \in 1 .. 5 : inp.votes[k].direction = d})
VoteSum ==
    inp.votes[1].score + inp.votes[2].score + inp.votes[3].score
        + inp.votes[4].score + inp.votes[5].score
BuyWins  == NumVotes("BUY") >= NumVotes("SELL") /\ NumVotes("BUY") >= 3
SellWins == NumVotes("SELL") > NumVotes("BUY") /\ NumVotes("SELL") >= 3
\* the call got as far as the tally
Tallied == Returned /\ out.log \notin {"insufficient candles", "outside signal window"}

\* C7: with b BUY votes and s SELL votes among the five, the consensus is BUY
\* iff b >= s and b >= 3, SELL iff s > b and s >= 3, and otherwise the call
\* ends "no consensus" without a signal; a published signal has the winning
\* direction and its agreeing count is the number of votes in that direction.
C7_ConsensusDirection ==
    /\ Tallied => (out.log = "no consensus" <=> ~BuyWins /\ ~SellWins)
    /\ Returned /\ ~BuyWins /\ ~SellWins => out.sig = <<>>
    /\ Published =>
         /\ Sig.direction = "BUY"  <=> BuyWins
         /\ Sig.direction = "SELL" <=> SellWins
         /\ Sig.agreeing = NumVotes(Sig.direction)

\* 3 BUY against 2 SELL was published as a BUY signal with agreeing 3
C7_Witness ==
    /\ Published
    /\ NumVotes("BUY") = 3 /\ NumVotes("SELL") = 2
    /\ Sig.direction = "BUY" /\ Sig.agreeing = 3

\* C8: a published signal's total_score is the sum of the scores of all five
\* votes, plus ALL_AGREE_BONUS (3) exactly when all five votes have the
\* signal's direction; five BUY votes of score 4 give 23, agreeing 5, A+ HIGH.
C8_TotalScore ==
    Published =>
      /\ Sig.total_score =
           VoteSum + (IF NumVotes(Sig.direction) = 5 THEN 3 ELSE 0)
      /\ (\A k \in 1 .. 5 : inp.votes[k] = Vote("BUY", 4)) =>
           Sig.total_score = 23 /\ Sig.agreeing = 5 /\ Sig.grade = "A+ HIGH"

\* five BUY votes of score 4 were published
C8_Witness ==
    /\ Published
    /\ \A k \in 1 .. 5 : inp.votes[k] = Vote("BUY", 4)
    /\ Sig.total_score = 23

\* C9: a published signal is graded A+ HIGH or A+ MEDIUM, never WATCH: A+ HIGH
\* iff total_score >= 20 and agreeing >= 4, otherwise A+ MEDIUM with
\* total_score >= 16 and agreeing >= 3; a consensus meeting neither condition
\* returns no signal.
C9_Grades ==
    /\ Published =>
         /\ Sig.grade \in {"A+ HIGH", "A+ MEDIUM"}
         /\ Sig.grade = "A+ HIGH" <=> (Sig.total_score >= 20 /\ Sig.agreeing >= 4)
         /\ Sig.grade = "A+ MEDIUM" =>
              Sig.total_score >= 16 /\ Sig.agreeing >= 3
    /\ Tallied /\ (BuyWins \/ SellWins) =>
         LET a == IF BuyWins THEN NumVotes("BUY") ELSE NumVotes("SELL")
             t == VoteSum + (IF a = 5 THEN 3 ELSE 0)
         IN  ~(t >= 20 /\ a >= 4) /\ ~(t >= 16 /\ a >= 3) => out.sig = <<>>

\* four agreeing models with a total of 19, one short of the high threshold,
\* were published as A+ MEDIUM
C9_Witness ==
    /\ Published
    /\ Sig.grade = "A+ MEDIUM" /\ Sig.agreeing >= 4 /\ Sig.total_score = 19

\* C10: in the dead zone (11:30:00 to 12:00:00, both ends included) no signal
\* with total_score below 20 is published; outside it the dead-zone gate
\* rejects nothing: a consensus that meets a grade threshold goes on to the
\* last filter and to publication.
InDeadZoneWindow == 11 * 3600 + 30 * 60 <= inp.now /\ inp.now <= 12 * 3600
C10_DeadZone ==
    /\ Published /\ InDeadZoneWindow => Sig.total_score >= 20
    /\ Returned /\ ~InDeadZoneWindow => out.log # "dead zone"
    /\ Tallied /\ ~InDeadZoneWindow /\ (BuyWins \/ SellWins) =>
         LET a == IF BuyWins THEN NumVotes("BUY") ELSE NumVotes("SELL")
             t == VoteSum + (IF a = 5 THEN 3 ELSE 0)
         IN  t >= 16 => out.log \in {"Signal", "BUY filtered out"}

\* at 12:00:00 a consensus scoring 16..19 was rejected by the dead-zone gate,
\* whose equal outside the window is published
C10_Witness ==
    /\ Returned
    /\ inp.now = 12 * 3600
    /\ out.log = "dead zone"
    /\ VoteSum \in 16 .. 19

\* outside the dead zone a signal scoring below 20 was published
C10_WitnessOutside ==
    Published /\ ~InDeadZoneWindow /\ Sig.total_score < 20

\* the call passed the tally, the dead-zone gate and grading
Graded ==
    /\ Tallied
    /\ out.log \notin {"no consensus", "dead zone", "below grade thresholds"}

\* C11: no BUY signal is published whose entry, the latest close (in
\* hundredths, five to a tick), is below the latest row's VWAP when that VWAP
\* is defined: a BUY consensus that passed
\* grading is rejected in that case ("BUY filtered out"), and only in that
\* case; a SELL consensus is never rejected by the filter.
C11_BuyBelowVwapRejected ==
    /\ Published /\ Sig.direction = "BUY" =>
         /\ Sig.entry = 5 * inp.close
         /\ ~(inp.vwap # NaN /\ Sig.entry < 5 * inp.vwap)
    /\ Graded /\ BuyWins /\ inp.vwap # NaN /\ inp.close < inp.vwap =>
         out.sig = <<>> /\ out.log = "BUY filtered out"
    /\ Returned /\ out.log = "BUY filtered out" =>
         BuyWins /\ inp.vwap # NaN /\ inp.close < inp.vwap

\* a five-model BUY consensus graded A+ HIGH was rejected with the close 1.00
\* below VWAP
C11_Witness ==
    /\ Returned
    /\ NumVotes("BUY") = 5 /\ VoteSum >= 20
    /\ inp.vwap # NaN /\ inp.close < inp.vwap
    /\ out.sig = <<>> /\ out.log = "BUY filtered out"

\* a BUY signal was published with the close exactly at VWAP
C11_WitnessAtVwap ==
    Published /\ Sig.direction = "BUY" /\ inp.vwap = inp.close

-----------------------------------------------------------------------------
(* Claims about calculate_risk (SpecRisk). The expected values are written  *)
(* out from the inputs, in 1/2000 of a tick: 0.4% of a price of e ticks is  *)
(* 8 * e, 0.1% is 2 * e, and e itself is 2000 * e.                          *)

IsBuy == inp.direction = "BUY"
\* the structural level handed to calculate_risk
Level == IF IsBuy THEN inp.or_low ELSE inp.or_high
\* the level exists and lies on the correct side of the entry
LevelOnSide ==
    /\ Level # 0 /\ Level # NaN
    /\ IF IsBuy THEN Level < inp.close ELSE Level > inp.close
\* the percentage stop
PctStop == IF IsBuy THEN 2000 * inp.close - 8 * inp.close
                    ELSE 2000 * inp.close + 8 * inp.close
\* the level moved 0.1% of the entry away from the entry
BufferedStop == IF IsBuy THEN 2000 * Level - 2 * inp.close
                         ELSE 2000 * Level + 2 * inp.close
\* x is a tighter stop than y: nearer to the entry
Tighter(x, y) == IF IsBuy THEN x > y ELSE x < y
\* the structural override applies
Overridden == LevelOnSide /\ Tighter(BufferedStop, PctStop)
\* the stop-loss as chosen, and its distance from the entry
ChosenStop == IF Overridden THEN BufferedStop ELSE PctStop
ChosenRisk == IF IsBuy THEN 2000 * inp.close - ChosenStop
                       ELSE ChosenStop - 2000 * inp.close
\* a target at the ratio rr (in tenths)
ExpectedTarget(rr) ==
    IF IsBuy THEN 2000 * inp.close + (ChosenRisk * rr) \div 10
             ELSE 2000 * inp.close - (ChosenRisk * rr) \div 10

C15_WitnessPctKept ==
    /\ Returned /\ ~IsBuy
    /\ inp.close = 450000 /\ inp.or_high = 451600
    /\ out.sl = 2259000

\* C16: with risk the distance between the entry and the stop-loss as chosen
\* (structural override included), target_1 is the entry plus (BUY) or minus
\* (SELL) risk * 1.5 and target_2 the entry plus or minus risk * 2.0, each
\* returned rounded to two decimals; BUY at 22500 with the stop-loss at 22410
\* gives target_1 = 22635. Between the returned fields, each rounded on its
\* own, the identity holds to within one hundredth.
C16_Targets ==
    Returned =>
      /\ out.target_1 = Round2(ExpectedTarget(15), inp.round_up.target_1)
      /\ out.target_2 = Round2(ExpectedTarget(20), inp.round_up.target_2)
      /\ IsBuy /\ inp.close = 450000 /\ out.sl = 2241000 =>
            out.target_1 = 2263500 /\ out.target_2 = 2268000
      /\ LET d == IF out.entry >= out.sl THEN out.entry - out.sl
                                        ELSE out.sl - out.entry
             t == IF IsBuy THEN 2 * out.entry + 3 * d
                           ELSE 2 * out.entry - 3 * d
         IN  2 * out.target_1 - t \in -2 .. 2

\* SELL with a structural override: entry 22500.00, opening-range high
\* 22550.00, stop-loss 22572.50, targets 22391.25 and 22355.00
C16_Witness ==
    /\ Returned /\ ~IsBuy /\ Overridden
    /\ inp.close = 450000
    /\ out.sl = 2257250
    /\ out.target_1 = 2239125 /\ out.target_2 = 2235500

\* the example of the claim: BUY at 22500 with the percentage stop
C16_WitnessExample ==
    /\ Returned /\ IsBuy /\ ~Overridden
    /\ inp.close = 450000 /\ out.sl = 2241000 /\ out.target_1 = 2263500

\* C17: rr_1 and rr_2 are the distances from the entry to target_1 and to
\* target_2 divided by the risk distance, rounded to two decimals; without a
\* structural override rr_1 = 1.5 and rr_2 = 2.0, for every entry.
C17_RiskReward ==
    Returned =>
      /\ out.rr_1 = RoundDiv(
             100 * (IF IsBuy THEN ExpectedTarget(15) - 2000 * inp.close
                             ELSE 2000 * inp.close - ExpectedTarget(15)),
             ChosenRisk, FALSE)
      /\ out.rr_2 = RoundDiv(
             100 * (IF IsBuy THEN ExpectedTarget(20) - 2000 * inp.close
                             ELSE 2000 * inp.close - ExpectedTarget(20)),
             ChosenRisk, FALSE)
      /\ ~Overridden => out.rr_1 = 150 /\ out.rr_2 = 200

\* a BUY plan without override at an entry whose stop and targets are not
\* whole hundredths reports 1.5 and 2.0
C17_Witness ==
    /\ Returned /\ IsBuy /\ ~Overridden
    /\ inp.close = 450001
    /\ out.rr_1 = 150 /\ out.rr_2 = 200

-----------------------------------------------------------------------------
(* Claims about evaluate_outcome (SpecOutcome). The touches are read off the *)
(* input frame, candle by candle.                                            *)

Rows == inp.candles_after
\* candle k touches the entry, the stop-loss, the target
TouchesEntry(k) ==
    IF inp.direction = "BUY" THEN Rows[k].high >= inp.entry
                             ELSE Rows[k].low <= inp.entry
TouchesStop(k) ==
    IF inp.direction = "BUY" THEN Rows[k].low <= inp.sl
                             ELSE Rows[k].high >= inp.sl
TouchesTarget(k) ==
    IF inp.direction = "BUY" THEN Rows[k].high >= inp.target_1
                             ELSE Rows[k].low <= inp.target_1
EntryCandles == {k \in DOMAIN Rows : TouchesEntry(k)}
\* the entry candle: the first that touches the entry (0 when none does)
EntryCandle ==
    IF EntryCandles = {} THEN 0
    ELSE CHOOSE k \in EntryCandles : \A j \in EntryCandles : k <= j
\* the candles strictly after the entry candle that touch a level
ExitCandles ==
    LET first == EntryCandle IN
    {k \in DOMAIN Rows :
       first # 0 /\ k > first /\ (TouchesStop(k) \/ TouchesTarget(k))}
\* the first of them (0 when there is none)
ExitCandle ==
    IF ExitCandles = {} THEN 0
    ELSE CHOOSE k \in ExitCandles : \A j \in ExitCandles : k <= j
Exited == out.outcome \in {"SL_HIT", "TARGET_HIT"}

\* C12: the candle on which the entry is first touched never triggers an
\* exit: an exit is reported only when a candle strictly after the entry
\* candle touches the stop-loss or the target, whatever the entry candle
\* itself reaches, and the entry is recorded at the entry candle.
C12_EntryCandleNoExit ==
    Returned =>
      /\ Exited => EntryCandle # 0 /\ ExitCandle > EntryCandle
      /\ EntryCandle # 0 /\ ExitCandles = {} => out.outcome = "WATCHING"
      /\ EntryCandle # 0 =>
            out.entry_met /\ out.entry_met_time = <<EntryCandle>>

\* BUY: the only candle to touch the entry also reaches the stop-loss and the
\* target, no later candle touches a level, and the outcome is WATCHING
C12_Witness ==
    /\ Returned
    /\ inp.direction = "BUY"
    /\ Len(Rows) = 2
    /\ EntryCandle = 1 /\ TouchesStop(1) /\ TouchesTarget(1)
    /\ ExitCandles = {}
    /\ out.outcome = "WATCHING" /\ out.exit_price = <<>>

\* C13: when the first candle after the entry candle to touch either level
\* touches the stop-loss, alone or together with the target, the outcome is
\* SL_HIT with exit_price the stop-loss, never TARGET_HIT; TARGET_HIT needs
\* that first touching candle to leave the stop-loss untouched.
C13_StopLossFirst ==
    Returned =>
      /\ ExitCandle # 0 /\ TouchesStop(ExitCandle) =>
            out.outcome = "SL_HIT" /\ out.exit_price = <<inp.sl>>
      /\ out.outcome = "TARGET_HIT" =>
            /\ ExitCandle # 0
            /\ TouchesTarget(ExitCandle) /\ ~TouchesStop(ExitCandle)
            /\ \A k \in DOMAIN Rows :
                  EntryCandle < k /\ k < ExitCandle => ~TouchesStop(k)

\* SELL: the candle after the entry candle touches the stop-loss and the
\* target, and the outcome is SL_HIT at the stop-loss
C13_Witness ==
    /\ Returned
    /\ inp.direction = "SELL"
    /\ EntryCandle = 1 /\ ExitCandle = 2
    /\ TouchesStop(2) /\ TouchesTarget(2)
    /\ out.outcome = "SL_HIT" /\ out.exit_price = <<inp.sl>>

\* a later candle touches the stop-loss before any touches the target
C13_WitnessLater ==
    /\ Returned
    /\ inp.direction = "BUY"
    /\ EntryCandle = 1 /\ ExitCandle = 3
    /\ TouchesStop(3) /\ ~TouchesTarget(3)
    /\ out.outcome = "SL_HIT"

\* C14: the outcome is one of PENDING, WATCHING, SL_HIT, TARGET_HIT: PENDING
\* iff no candle touched the entry (the empty frame included), WATCHING iff
\* the entry was touched and no later candle touched the stop-loss or the
\* target; SL_HIT and TARGET_HIT carry exit_price, the stop-loss resp. the
\* target, and pnl_pct, the gain in the trade's direction as a percentage of
\* the entry rounded to three decimals; PENDING and WATCHING carry neither.
C14_OutcomeStates ==
    Returned =>
      /\ out.outcome \in {"PENDING", "WATCHING", "SL_HIT", "TARGET_HIT"}
      /\ out.outcome = "PENDING" <=> EntryCandle = 0
      /\ out.outcome = "WATCHING" <=> (EntryCandle # 0 /\ ExitCandle = 0)
      /\ out.entry_met <=> EntryCandle # 0
      /\ out.outcome = "SL_HIT" => out.exit_price = <<inp.sl>>
      /\ out.outcome = "TARGET_HIT" => out.exit_price = <<inp.target_1>>
      /\ Exited =>
            /\ out.pnl_pct # <<>>
            /\ LET gain == IF inp.direction = "BUY"
                            THEN out.exit_price[1] - inp.entry
                            ELSE inp.entry - out.exit_price[1]
                   err  == out.pnl_pct[1] * inp.entry - gain * 100000
               IN  2 * err \in (0 - inp.entry) .. inp.entry
      /\ ~Exited => out.exit_price = <<>> /\ out.pnl_pct = <<>>

\* BUY entered at 300 and stopped at 298: pnl_pct = -0.667
C14_Witness ==
    /\ Returned
    /\ inp.direction = "BUY"
    /\ out.outcome = "SL_HIT"
    /\ out.exit_price = <<298>> /\ out.pnl_pct = <<-667>>

\* the empty frame is PENDING
C14_WitnessEmpty ==
    Returned /\ Rows = <<>> /\ out.outcome = "PENDING"

\* a SELL reached its target at 297: pnl_pct = 1.0
C14_WitnessTarget ==
    /\ Returned
    /\ inp.direction = "SELL"
    /\ out.outcome = "TARGET_HIT"
    /\ out.exit_price = <<297>> /\ out.pnl_pct = <<1000>>

-----------------------------------------------------------------------------
(* Claims about the five models (SpecModels) *)

Df == inp.df
\* the history is too short for the model called
ShortHistory ==
    \/ inp.model = 1 /\ (Df.rows < 2 \/ Df.or_high[1] = NaN \/ Df.or_low[1] = NaN)
    \/ inp.model = 2 /\ Df.rows < 3
    \/ inp.model = 3 /\ Df.rows < 51
    \/ inp.model = 4 /\ Df.rows < 5
    \/ inp.model = 5 /\ (inp.cpr = <<>> \/ ~inp.cpr[1].has_levels \/ Df.rows < 2)

\* C18: called on a history too short for it (ORB: fewer than 2 rows or no
\* opening range; VWAP: fewer than 3 rows; EMA: fewer than 51; Momentum: fewer
\* than 5; CPR: no pivot levels or fewer than 2 rows), a model returns, without
\* raising, NEUTRAL with score 0 and a reason; and every vote a model returns
\* is NEUTRAL with score 0, or BUY or SELL with an integer score from the
\* model's base score (2 for ORB, 3 for the others) to 5.
C18_ShortHistoryNeutral ==
    Returned =>
      /\ ShortHistory =>
            out.direction = "NEUTRAL" /\ out.score = 0 /\ out.reason # ""
      /\ out.direction \in {"BUY", "SELL", "NEUTRAL"}
      /\ out.score \in 0 .. 5
      /\ Vote(out.direction, out.score) \in ModelVotes(inp.model)

\* the VWAP model on two rows that would be a BUY reversal with a third
C18_Witness ==
    /\ Returned
    /\ inp.model = 2 /\ Df.rows = 2
    /\ Df.close = <<1010, 990>> /\ Df.vwap = <<1000, 1000>> /\ Df.rsi14[1] = 25
    /\ out = FullVote("NEUTRAL", 0, "VWAP: insufficient data")

\* the CPR model handed a dict without the levels: the KeyError is caught
C18_WitnessCaught ==
    /\ Returned
    /\ inp.model = 5 /\ inp.cpr # <<>> /\ ~inp.cpr[1].has_levels
    /\ out = FullVote("NEUTRAL", 0, "CPR error")

\* an ORB vote of 5, the highest score
C18_WitnessTopScore ==
    Returned /\ inp.model = 1 /\ out.direction = "SELL" /\ out.score = 5

\* an indicator value the model called reads at the latest rows is NaN
NaNIndicator ==
    \/ inp.model = 2 /\ Df.rows >= 3
         /\ NaN \in {Df.vwap[1], Df.vwap[2], Df.rsi14[1]}
    \/ inp.model = 3 /\ Df.rows >= 51
         /\ NaN \in {Df.ema9[1], Df.ema21[1], Df.ema50[1]}
    \/ inp.model = 4 /\ Df.rows >= 5
         /\ NaN \in {Df.rsi14[1], Df.rsi14[2], Df.macd_hist[1], Df.macd_hist[2]}

\* C19: when an indicator value a model reads at the latest rows is NaN (VWAP
\* or RSI for VWAP Reversion; EMA9, EMA21 or EMA50 for EMA Trend; RSI or the
\* MACD histogram of the last two rows for Momentum), the model returns, without
\* raising, NEUTRAL with score 0 and its NaN reason; a NaN histogram two rows
\* back leaves Momentum NEUTRAL with score 0 as well.
C19_NaNIndicatorNeutral ==
    Returned =>
      /\ NaNIndicator =>
            /\ out.direction = "NEUTRAL" /\ out.score = 0
            /\ out.reason = CASE inp.model = 2 -> "VWAP: NaN values"
                               [] inp.model = 3 -> "EMA: NaN"
                               [] inp.model = 4 -> "MACD: NaN"
      /\ inp.model = 4 /\ Df.rows >= 5 /\ Df.macd_hist[3] = NaN =>
            /\ out.direction = "NEUTRAL" /\ out.score = 0
            /\ out.reason \in {"MACD: NaN", "MACD/RSI: no signal"}

\* the VWAP model with every price in place for a BUY reversal and RSI NaN
C19_Witness ==
    /\ Returned
    /\ inp.model = 2 /\ Df.rows = 3
    /\ Df.close = <<1010, 990>> /\ Df.vwap = <<1000, 1000>>
    /\ Df.rsi14[1] = NaN
    /\ out = FullVote("NEUTRAL", 0, "VWAP: NaN values")

\* Momentum with only the histogram two rows back NaN
C19_WitnessUnchecked ==
    /\ Returned
    /\ inp.model = 4 /\ Df.rows = 5
    /\ Df.macd_hist = <<20, 10, NaN>> /\ Df.rsi14 = <<50, 45>>
    /\ out = FullVote("NEUTRAL", 0, "MACD/RSI: no signal")

\* EMA Trend with EMA50 NaN
C19_WitnessEma ==
    /\ Returned
    /\ inp.model = 3 /\ Df.rows = 51
    /\ Df.ema9[1] = 1004 /\ Df.ema21[1] = 1002 /\ Df.ema50[1] = NaN
    /\ out = FullVote("NEUTRAL", 0, "EMA: NaN")

-----------------------------------------------------------------------------
(* Claims about cpr_levels (SpecCpr) *)

StrictOrder ==
    /\ out.tc > out.pivot /\ out.pivot > out.bc
    /\ out.r1 > out.pivot /\ out.pivot > out.s1
WeakOrder ==
    /\ out.tc >= out.pivot /\ out.pivot >= out.bc
    /\ out.r1 >= out.pivot /\ out.pivot >= out.s1
\* the input is a day's candle: the close lies within the range
CloseInRange ==
    inp.prev_low <= inp.prev_close /\ inp.prev_close <= inp.prev_high
\* the three prices are multiples of the 0.05 tick
OnTicks ==
    inp.prev_high % TICK = 0 /\ inp.prev_low % TICK = 0
    /\ inp.prev_close % TICK = 0

\* C20 as stated: the returned levels satisfy tc > pivot > bc and
\* r1 > pivot > s1 for every high, low and close with high > low.
C20_StrictForEveryRange ==
    Returned /\ inp.prev_high > inp.prev_low => StrictOrder

\* C20: for every high, low and close with high > low and the close within
\* [low, high], the returned levels satisfy tc >= pivot >= bc and
\* r1 >= pivot >= s1, and tc > pivot > bc and r1 > pivot > s1 whenever the
\* range high - low exceeds 0.06 or the three prices are multiples of 0.05.
C20_OrderAfterRounding ==
    Returned /\ inp.prev_high > inp.prev_low /\ CloseInRange =>
      /\ WeakOrder
      /\ (inp.prev_high - inp.prev_low > 6 \/ OnTicks) => StrictOrder

\* a one-tick day closing on its low: 100.00 / 100.05 / 100.00 returns
\* bc 100.01, pivot 100.02, tc 100.03
C20_Witness ==
    /\ Returned
    /\ inp.prev_low = 10000 /\ inp.prev_high = 10005 /\ inp.prev_close = 10000
    /\ out.bc = 10001 /\ out.pivot = 10002 /\ out.tc = 10003
    /\ out.s1 = 9998 /\ out.r1 = 10003

\* a range of 0.01 within which rounding merges pivot and bc
C20_WitnessMerged ==
    /\ Returned
    /\ inp.prev_low = 10000 /\ inp.prev_high = 10001 /\ inp.prev_close = 10000
    /\ out.pivot = 10000 /\ out.bc = 10000

-----------------------------------------------------------------------------
(* Claims about rsi (SpecRsi) *)

\* no close-to-close decrease up to row t: the smoothed average loss is zero
NoDecreaseUpTo(t) ==
    \A j \in 2 .. t : inp.series[j] >= inp.series[j - 1]

\* C21: at every row where the smoothed average loss is zero (no
\* close-to-close decrease so far in the series), rsi returns the defined
\* maximum RSI, 100, not an undefined value.
C21_ZeroLossIsMaximum ==
    Returned =>
      \A t \in 2 .. Len(inp.series) :
         NoDecreaseUpTo(t) =>
            ~out[t].nan /\ out[t].num = 100 * out[t].den

\* what the function returns there: NaN on every such row, and a number
\* strictly between 0 and 100 or 0 on every later row
C21_ZeroLossIsNaN ==
    Returned =>
      \A t \in 1 .. Len(inp.series) :
         IF t = 1 \/ NoDecreaseUpTo(t) THEN out[t].nan
         ELSE ~out[t].nan /\ out[t].num >= 0 /\ out[t].num < 100 * out[t].den

\* three rising closes: the RSI of the last row is NaN
C21_WitnessRising ==
    /\ Returned
    /\ inp.series = <<1000, 1001, 1003>>
    /\ out[3].nan

-----------------------------------------------------------------------------
(* Claims about scan_index run on frames (SpecScanFrames) *)

\* the averages are aligned and the close beyond them: the EMA model's
\* condition for a vote, whatever the number of rows
EmaAligned ==
    LET e9 == inp.df.ema9[1]  e21 == inp.df.ema21[1]  e50 == inp.df.ema50[1]
        c  == inp.df.close[1]
    IN  \/ e9 > e21 /\ e21 > e50 /\ c > e9
        \/ e9 < e21 /\ e21 < e50 /\ c < e9
ResultScores == out.results[1].score + out.results[2].score
                + out.results[3].score + out.results[4].score
                + out.results[5].score

\* C22: on a series of fewer than 51 candles model_ema_trend votes NEUTRAL
\* with score 0, whatever the averages and prices; so a signal scan_index
\* publishes from such a series has at most 4 agreeing models and a
\* total_score without the all-agree bonus: the plain sum of the five scores.
C22_EmaOffBelow51 ==
    Returned /\ inp.df.rows < 51 =>
      /\ out.results[3].direction = "NEUTRAL" /\ out.results[3].score = 0
      /\ Published =>
            Sig.agreeing <= 4 /\ Sig.total_score = ResultScores

\* 50 candles with the averages aligned: the EMA model stays NEUTRAL and a
\* signal is published on the votes of the others
C22_Witness ==
    /\ Returned
    /\ inp.df.rows = 50 /\ EmaAligned
    /\ out.results[3] = FullVote("NEUTRAL", 0, "EMA: warming up (<51 candles)")
    /\ Published

\* with 51 candles the same averages make the EMA model vote
C22_WitnessVotesAt51 ==
    /\ Returned
    /\ inp.df.rows = 51 /\ EmaAligned
    /\ out.results[3].direction = "BUY"
    /\ Published /\ Sig.agreeing = 4

-----------------------------------------------------------------------------
(* Claims about what a poller reads (Spec) *)

\* the trigger that started thread t has returned and t's cycle has not yet
\* finished (its finally block has not yet cleared the flag)
CycleUnderWay(t) ==
    pc[t] \notin {"unstarted", "fin_rel", "done"}

\* C23: once a scan-trigger call has returned having started a cycle, every
\* results-read shows running = true until that cycle finishes; in
\* particular no read shows running = false together with progress 100 and
\* the 'Scan complete' message of the previous cycle.
C23_RunningOnceTriggered ==
    \A t \in Threads : CycleUnderWay(t) => results.running

\* the second clause alone: after the trigger of a second cycle has returned
\* a read still shows the finished state of the first
C23_NoStaleComplete ==
    \A t \in Threads :
       CycleUnderWay(t) =>
          ~(/\ ~results.running
            /\ results.progress = 100
            /\ results.message.kind = "Scan complete")

\* the scan_state the critical section thread t is in will leave behind
AfterSection(t) ==
    LET p == pc[t] IN
    IF p \in {"init_running", "init_progress", "init_message", "init_error",
              "init_signals", "init_rel"}
    THEN [scan_state EXCEPT !.running = TRUE, !.progress = 0,
                            !.message = Msg("Starting scan...", "", 0),
                            !.error = "None", !.signals = <<>>]
    ELSE IF p \in {"prog_progress", "prog_message", "prog_rel"}
    THEN [scan_state EXCEPT !.progress = Progress(i[t]),
                            !.message = Msg("Fetching CPR",
                                            INSTRUMENTS[i[t] + 1], 0)]
    ELSE IF p \in {"msg_message", "msg_rel"}
    THEN [scan_state EXCEPT !.message = Msg("Scanning", INSTRUMENTS[i[t] + 1], 0)]
    ELSE IF p \in {"pub_signals", "pub_cprs", "pub_progress", "pub_message",
                   "pub_timestamp", "pub_rel"}
    THEN [scan_state EXCEPT !.signals = l_signals[t], !.cprs = l_cprs[t],
                            !.progress = 100,
                            !.message = Msg("Scan complete", "",
                                            Len(l_signals[t])),
                            !.timestamp = t]
    ELSE IF p \in {"exc_error", "exc_message", "exc_rel"}
    THEN [scan_state EXCEPT !.error = l_exc[t],
                            !.message = Msg("Scan failed", l_exc[t], 0)]
    ELSE [scan_state EXCEPT !.running = FALSE]

\* C24: every snapshot a results-read returns is the scan_state of an instant
\* outside the writers' critical sections: the state the last critical section
\* left, or the state the one under way is about to leave - never some fields
\* of before and some of after one critical section.
C24_SnapshotOutsideSections ==
    \/ results = committed
    \/ \E t \in Threads : pc[t] \in InCS /\ results = AfterSection(t)

\* the mix the publishing block allows: the new cycle's signals with the
\* progress of the last instrument
C24_MixedPublication ==
    \E t \in Threads :
       /\ pc[t] = "pub_cprs"
       /\ results.signals = l_signals[t] /\ results.signals # <<>>
       /\ results.progress < 100
       /\ committed.signals = <<>>

-----------------------------------------------------------------------------
(* Claims about the end of a cycle (SpecLive) *)

\* thread t's cycle failed outside the per-instrument handler
Failed(t) == l_exc[t] # "None"

C25_WitnessCompleted ==
    \E t \in Threads :
       /\ pc[t] = "done" /\ ~Failed(t)
       /\ ~scan_state.running /\ scan_state.progress = 100

-----------------------------------------------------------------------------
(* Claims about the published progress (Spec) *)

\* the reset at the start of a cycle: scan_state["progress"] = 0 in the first
\* locked block of _scan
ResetStep == \E t \in Threads : pc[t] = "init_progress" /\ pc'[t] # pc[t]

\* C26: the progress observed while running is true never drops from a
\* higher to a lower value except through the reset to 0 at the start of a
\* new cycle.
C26_ProgressNeverDrops ==
    [][scan_state.running /\ scan_state'.running
         /\ scan_state'.progress < scan_state.progress
       => ResetStep /\ scan_state'.progress = 0]_vars

\* while no second cycle has started, the progress never drops at all
C26_LoneCycleAscends ==
    [][(\E t \in Threads : \A u \in Threads \ {t} : pc'[u] = "unstarted")
       => scan_state'.progress >= scan_state.progress]_vars

-----------------------------------------------------------------------------
(* Claims about bare consensus and the signal window (SpecScanIndex) *)

\* exactly three votes for direction d, the other two NEUTRAL
BareConsensus(d) == NumVotes(d) = MIN_MODELS_AGREE /\ NumVotes("NEUTRAL") = 2

OppositeOf(d) == IF d = "BUY" THEN "SELL" ELSE "BUY"

\* C27: exactly three agreeing models with the other two NEUTRAL never
\* produce a signal, their total being at most 15, below the lowest grade
\* threshold 16; a published signal with agreeing = 3 includes at least one
\* vote for the opposite direction.
C27_BareConsensusSilent ==
    /\ Returned /\ (BareConsensus("BUY") \/ BareConsensus("SELL")) =>
         /\ VoteSum <= 3 * MAX_SCORE
         /\ VoteSum < GRADE_A_MED_SCORE
         /\ out.sig = <<>>
    /\ Published /\ Sig.agreeing = MIN_MODELS_AGREE =>
         NumVotes(OppositeOf(Sig.direction)) >= 1

\* three top-score BUY votes and two NEUTRAL in the window, outside the dead
\* zone: the call got to the grade and returned nothing
C27_Witness ==
    /\ Returned /\ BareConsensus("BUY") /\ VoteSum = 3 * MAX_SCORE
    /\ out.log = "below grade thresholds" /\ out.sig = <<>>

\* three agreeing models were published thanks to an opposite vote's score
C27_WitnessOpposite ==
    /\ Published /\ Sig.agreeing = MIN_MODELS_AGREE
    /\ NumVotes(OppositeOf(Sig.direction)) = 1 /\ NumVotes("NEUTRAL") = 1
    /\ Sig.total_score >= GRADE_A_MED_SCORE

\* C28 (one call): a scan_index call whose wall-clock time is outside
\* 09:30:00 to 14:00:00, both ends included, returns no signal, and returns
\* it at the time gate or before, ahead of the models; at either end of the
\* window the gate lets the call through.
C28_NoSignalOutsideWindow ==
    /\ Returned /\ ~(34200 <= inp.now /\ inp.now <= 50400) =>
         /\ out.sig = <<>>
         /\ out.log \in {"insufficient candles", "outside signal window"}
    /\ Returned /\ inp.now \in {34200, 50400} => out.log # "outside signal window"

\* a unanimous top-score vote one second after the window's end was dropped
\* at the gate
C28_Witness ==
    /\ Returned /\ inp.now = 50401 /\ inp.rows >= MIN_CANDLES
    /\ \A k \in 1 .. 5 : inp.votes[k] = Vote("BUY", MAX_SCORE)
    /\ out.sig = <<>> /\ out.log = "outside signal window"

\* the same vote at the window's last second was published
C28_WitnessLastSecond ==
    /\ Published /\ inp.now = 50400
    /\ \A k \in 1 .. 5 : inp.votes[k] = Vote("BUY", MAX_SCORE)

-----------------------------------------------------------------------------
(* Claims about a whole cycle and the signal window (Spec) *)

\* thread t has written scan_state["signals"] in its publishing block and
\* still holds the lock
PublishedBy(t) ==
    pc[t] \in {"pub_cprs", "pub_progress", "pub_message", "pub_timestamp", "pub_rel"}

\* C28 (a cycle): a cycle run outside the signal window completes with an
\* empty signals list: while the window has not opened no cycle has collected
\* or published a signal, a cycle started after it has closed publishes the
\* empty list, and no scan_index call made outside the window adds a signal to
\* its cycle's list.
C28_CycleOutsideWindow ==
    /\ [](clock < ParseTime(SIGNAL_START) =>
            /\ scan_state.signals = <<>>
            /\ \A t \in Threads : l_signals[t] = <<>>)
    /\ \A t \in Threads :
         []((clock > ParseTime(SIGNAL_END) /\ pc[t] \in {"unstarted", "init_acq"})
              => [](PublishedBy(t) => scan_state.signals = <<>>))
    /\ [][\A t \in Threads :
            /\ pc[t] = "scan"
            /\ (clock < ParseTime(SIGNAL_START) \/ clock > ParseTime(SIGNAL_END))
            =>
               Len(l_signals'[t]) <= Len(l_signals[t])]_vars

\* a cycle started after the window had closed met a strong consensus at
\* both instruments and published nothing
C28_WitnessCycle ==
    \E t \in Threads :
       /\ clock > ParseTime(SIGNAL_END)
       /\ pc[t] = "pub_rel"
       /\ outcome[t] = <<"none", "none">>
       /\ scan_state.signals = <<>>
       /\ \A u \in Threads \ {t} : pc[u] = "unstarted"

-----------------------------------------------------------------------------
(* Claims about replaying longer frames (SpecOutcome) *)

\* what evaluate_outcome returns on the first n candles of the frame
Upto(n) ==
    evaluate_outcome(inp.direction, inp.entry, inp.sl, inp.target_1,
                     SubSeq(Rows, 1, n))

\* how far a result has come: awaiting the entry, in the trade, closed
Stage(r) ==
    IF r.outcome \in {"SL_HIT", "TARGET_HIT"} THEN 2
    ELSE IF r.entry_met THEN 1 ELSE 0

\* C29: replayed over ever longer frames the outcome only moves forward
\* (entry awaited, then in the trade, then SL_HIT or TARGET_HIT), and a
\* terminal result is final: when the first n candles yield SL_HIT or
\* TARGET_HIT, the frame with any further candles appended returns the
\* identical result (outcome, exit_price, pnl_pct, entry_met_time); once the
\* entry is met entry_met_time is the time of the first candle touching
\* the entry, whatever follows it.
C29_TerminalIsFinal ==
    Returned =>
      /\ LET upto  == [n \in 0 .. Len(Rows) |-> Upto(n)]
             first == EntryCandle
         IN  \A n \in 0 .. Len(Rows) :
               /\ Stage(upto[n]) = 2 => out = upto[n]
               /\ Stage(upto[n]) <= Stage(out)
               /\ n < Len(Rows) => Stage(upto[n]) <= Stage(upto[n + 1])
               /\ upto[n].entry_met =>
                     /\ upto[n].entry_met_time = <<first>>
                     /\ out.entry_met_time = <<first>>
      /\ Stage(out) = 1 <=> out.outcome = "WATCHING"
      /\ Stage(out) = 0 <=> out.outcome = "PENDING"

\* BUY: the stop-loss was hit at the second candle after the entry candle
\* and a later candle reaches the target: the result stays SL_HIT
C29_Witness ==
    /\ Returned /\ inp.direction = "BUY"
    /\ Len(Rows) = 3 /\ EntryCandle = 1
    /\ TouchesStop(2) /\ ~TouchesTarget(2)
    /\ TouchesTarget(3) /\ ~TouchesStop(3)
    /\ Upto(2).outcome = "SL_HIT"
    /\ out.outcome = "SL_HIT" /\ out.exit_price = <<inp.sl>>

\* SELL: the target was hit and a later candle touches the entry and the
\* stop-loss again: the entry time and the result stay
C29_WitnessSell ==
    /\ Returned /\ inp.direction = "SELL"
    /\ Len(Rows) = 3 /\ EntryCandle = 1
    /\ TouchesTarget(2) /\ ~TouchesStop(2)
    /\ TouchesEntry(3) /\ TouchesStop(3)
    /\ out.outcome = "TARGET_HIT" /\ out.entry_met_time = <<1>>

====
